---- MODULE Spec2Model ----
(***************************************************************************)
(* The Content Disarm and Reconstruction pipeline of cc-fetcher:           *)
(*   scripts/cdr_cleaner.py     the Reconstructor                          *)
(*   scripts/validate_output.py the Validator                              *)
(*                                                                         *)
(* A Python str is a sequence of characters; a character is a one-letter   *)
(* TLA+ string, except the control character U+0000, written "NUL".  A     *)
(* JSON value is a record with the fields t (type), b, n, s, items, kv, so *)
(* that any two values can be compared.  A Python dict is the sequence of  *)
(* its (key, value) pairs in insertion order.                              *)
(***************************************************************************)
EXTENDS Integers, Sequences, FiniteSets, TLC

VARIABLES
    raw_doc,    \* the parsed input document (json.load's result)
    clean_doc,  \* what reconstruct_fetcher_output made of raw_doc
    second_doc, \* what a second pass made of clean_doc
    verdict,    \* the Validator's answer on clean_doc
    pc,       \* where the pipeline stands
    arg,        \* the argument of a sanitizer called on its own
    depth,      \* the depth argument of that call, for reconstruct_value
    ret,        \* what that call returned
    argv,       \* the cleaner's command line: len(sys.argv), and whether
                \* the input directory it names exists
    files,      \* the *.json files under the input root, as rglob lists them
    cursor,     \* the index in files of the file the batch loop is at
    passed,     \* process_directory's count of cleaned files
    failed,     \* process_directory's count of the others
    written,    \* the output root: the (relative path, document) written
    log,        \* the lines process_file printed: (file name, outcome)
    status,     \* the exit status of main, -1 while it runs
    errors,     \* validate_directory's list of error lines
    max_per_domain, \* DomainRateLimiter._max
    semaphores, \* DomainRateLimiter._semaphores: domain -> Semaphore
    made,       \* the number of Semaphore objects constructed so far
    task,       \* the tasks using the limiter: where each stands, and
                \* the locals of its acquire call
    retry,      \* request_with_retry's RetryConfig
    attempt,    \* its loop variable
    last_exc,   \* its last_exc, "" for None
    history,    \* what it did so far: the requests and the sleeps, in order
    outcome,    \* how it ended: the response returned or the error raised
    config_found,  \* whether load_config finds the environment's file
    source_filter, \* run's --source option, "" when omitted
    calls,      \* how often run_source was called for each source
    results,    \* the result dicts of _run_single_source, by source
    exit_code   \* the exit status of the run command, -1 while it runs

batch == <<argv, files, cursor, passed, failed, written, log, status>>

vars == <<raw_doc, clean_doc, second_doc, verdict, pc, arg, depth, ret,
          argv, files, cursor, passed, failed, written, log, status,
          errors, max_per_domain, semaphores, made, task,
          retry, attempt, last_exc, history, outcome,
          config_found, source_filter, calls, results, exit_code>>

limiter == <<max_per_domain, semaphores, made, task>>

\* No limiter is in use.
NoLimiter ==
    /\ max_per_domain = 0 /\ semaphores = <<>> /\ made = 0 /\ task = <<>>

retrying == <<retry, attempt, last_exc, history, outcome>>

\* No request is under way.
NoRetrying ==
    /\ retry = <<>> /\ attempt = 0 /\ last_exc = "" /\ history = <<>> /\ outcome = <<>>

running == <<config_found, source_filter, calls, results, exit_code>>

\* The run command is not used.
NoRunning ==
    /\ config_found = FALSE /\ source_filter = "" /\ calls = <<>>
    /\ results = <<>> /\ exit_code = 0 - 1

\* The state of the fetcher package's programs.
fetcher == <<limiter, retrying, running>>

NoFetcher ==
    /\ NoLimiter
    /\ NoRetrying
    /\ NoRunning

\* The state of the programs a specification does not run.
others == <<errors, fetcher>>

NoOthers ==
    /\ errors = <<>>
    /\ NoFetcher

\* No batch is run.
NoBatch ==
    /\ argv = [n |-> 0, exists |-> FALSE] /\ files = <<>> /\ cursor = 0
    /\ passed = 0 /\ failed = 0 /\ written = {} /\ log = <<>> /\ status = 0 - 1

----------------------------------------------------------------------------
(* Python str operations                                                   *)

\* The sequence a function on 1..n is, built once.
AsSeq(f) == SubSeq(f, 1, Len(f))

Rep(c, n) == AsSeq([i \in 1..n |-> c])

Min2(a, b) == IF a < b THEN a ELSE b

Max2(a, b) == IF a > b THEN a ELSE b

\* s[:n]
Prefix(s, n) == SubSeq(s, 1, Min2(n, Len(s)))

\* s.startswith(p)
StartsWith(s, p) == Len(s) >= Len(p) /\ SubSeq(s, 1, Len(p)) = p

\* t in s
Contains(s, t) ==
    \/ t = <<>>
    \/ \E i \in 1..(Len(s) - Len(t) + 1) :
           s[i] = t[1] /\ SubSeq(s, i, i + Len(t) - 1) = t

UpperLetters ==
    <<"A", "B", "C", "D", "E", "F", "G", "H", "I", "J", "K", "L", "M",
      "N", "O", "P", "Q", "R", "S", "T", "U", "V", "W", "X", "Y", "Z">>

LowerLetters ==
    <<"a", "b", "c", "d", "e", "f", "g", "h", "i", "j", "k", "l", "m",
      "n", "o", "p", "q", "r", "s", "t", "u", "v", "w", "x", "y", "z">>

Digits == <<"0", "1", "2", "3", "4", "5", "6", "7", "8", "9">>

UpperSet == {UpperLetters[i] : i \in 1..26}

LowerSet == {LowerLetters[i] : i \in 1..26}

DigitSet == {Digits[i] : i \in 1..10}

ToLower == [c \in UpperSet |-> LowerLetters[CHOOSE i \in 1..26 : UpperLetters[i] = c]]

IsUpper(c) == c \in UpperSet

IsLetter(c) == c \in UpperSet \/ c \in LowerSet

IsDigit(c) == c \in DigitSet

LowerChar(c) == IF IsUpper(c) THEN ToLower[c] ELSE c

\* s.lower()
Lower(s) ==
    IF \A i \in 1..Len(s) : ~IsUpper(s[i]) THEN s
    ELSE AsSeq([i \in 1..Len(s) |-> LowerChar(s[i])])

\* The characters \s matches and str.strip() removes.
Whitespace == {" ", "\t", "\n", "\r"}

\* The characters of [\x00-\x08\x0b\x0c\x0e-\x1f\x7f-\x9f].
ControlChars == {"NUL"}

\* s.strip()
Strip(s) ==
    IF \A i \in 1..Len(s) : s[i] \in Whitespace THEN <<>>
    ELSE LET first == CHOOSE i \in 1..Len(s) :
                          /\ s[i] \notin Whitespace
                          /\ \A j \in 1..(i - 1) : s[j] \in Whitespace
             last  == CHOOSE i \in 1..Len(s) :
                          /\ s[i] \notin Whitespace
                          /\ \A j \in (i + 1)..Len(s) : s[j] \in Whitespace
         IN SubSeq(s, first, last)

\* The decimal digits of a natural number, most significant first.
RECURSIVE NatStr(_)
NatStr(n) ==
    IF n < 10 THEN <<Digits[n + 1]>>
    ELSE NatStr(n \div 10) \o <<Digits[(n % 10) + 1]>>

\* str(n) of an int
IntStr(n) == IF n < 0 THEN <<"-">> \o NatStr(0 - n) ELSE NatStr(n)

----------------------------------------------------------------------------
(* JSON values, as json.load builds them                                   *)

Val(t, b, n, e, s, items, kv) ==
    [t |-> t, b |-> b, n |-> n, e |-> e, s |-> s, items |-> items, kv |-> kv]

None == Val("null", FALSE, 0, 0, <<>>, <<>>, <<>>)

Bool(b) == Val("bool", b, 0, 0, <<>>, <<>>, <<>>)

\* The int n * 10^e (Python's ints are unbounded, TLC's are not).
BigNum(n, e) == Val("int", FALSE, n, e, <<>>, <<>>, <<>>)

Num(n) == BigNum(n, 0)

\* A float: n is its integral part and s the digits after the point, or it
\* is one of the non-finite floats, which json.load accepts as NaN, Infinity
\* and -Infinity.
Float(n, frac) == Val("float", FALSE, n, 0, frac, <<>>, <<>>)

NaN == Val("float", FALSE, 0, 0, <<"n", "a", "n">>, <<>>, <<>>)

Infinity == Val("float", FALSE, 0, 0, <<"i", "n", "f">>, <<>>, <<>>)

MinusInfinity == Val("float", FALSE, 0, 0, <<"-", "i", "n", "f">>, <<>>, <<>>)

Str(s) == Val("str", FALSE, 0, 0, s, <<>>, <<>>)

List(items) == Val("list", FALSE, 0, 0, <<>>, items, <<>>)

Dict(kv) == Val("dict", FALSE, 0, 0, <<>>, <<>>, kv)

\* An exception that leaves the function, by its type.
Raised(exc) == Val("raise", FALSE, 0, 0, <<exc>>, <<>>, <<>>)

EmptyDict == Dict(<<>>)

KV(k, v) == [k |-> k, v |-> v]

IsFinite(v) == v.s \notin {NaN.s, Infinity.s, MinusInfinity.s}

\* key in d
HasKey(d, k) == \E i \in 1..Len(d.kv) : d.kv[i].k = k

\* d[key], for a key of d
Get(d, k) == d.kv[CHOOSE i \in 1..Len(d.kv) : d.kv[i].k = k].v

\* d.get(key, default)
GetOr(d, k, default) == IF HasKey(d, k) THEN Get(d, k) ELSE default

\* d[key] = v: a key already in d keeps its place, a new one goes last.
DictSet(d, k, v) ==
    [d EXCEPT !.kv =
        IF \E i \in 1..Len(@) : @[i].k = k
        THEN AsSeq([i \in 1..Len(@) |-> IF @[i].k = k THEN [k |-> k, v |-> v] ELSE @[i]])
        ELSE Append(@, [k |-> k, v |-> v])]

\* d.keys(), as a set
Keys(d) == {d.kv[i].k : i \in 1..Len(d.kv)}

\* The truth value of a str, a dict or None, as `if x:` takes it.
Truthy(v) ==
    CASE v.t = "str"  -> v.s # <<>>
      [] v.t = "dict" -> v.kv # <<>>
      [] v.t = "list" -> v.items # <<>>
      [] v.t = "bool" -> v.b
      [] v.t = "int"  -> v.n # 0
      [] OTHER        -> FALSE

----------------------------------------------------------------------------
(* scripts/cdr_cleaner.py: configuration                                   *)

MAX_STRING_LENGTH == 50000

MAX_ARRAY_LENGTH == 10000

MAX_NESTING_DEPTH == 20

\* len(url) > 2048
MAX_URL_LENGTH_CDR == 2048

\* abs(value) > 1e15: the exponent of the bound
HUGE_EXPONENT == 15

----------------------------------------------------------------------------
(* scripts/cdr_cleaner.py: the scalar sanitizers                           *)

Dropped == "DROP"

IsKept(c) == c # Dropped

IsNotControl(c) == c \notin ControlChars

\* bleach.clean(value, tags=[], strip=True): every markup tag, from a "<"
\* that a letter, "/" or "!" follows to the next ">", is removed and the
\* text between the tags is kept.  (bleach also writes a "<", ">" or "&"
\* that belongs to no tag as an entity; the texts of this model hold none.)
bleach_clean(s) ==
    IF \A i \in 1..Len(s) : s[i] # "<" THEN s
    ELSE LET n      == Len(s)
             closes == {g \in 1..n : s[g] = ">"}
             opens  == {a \in 1..(n - 1) :
                           s[a] = "<" /\ (IsLetter(s[a + 1]) \/ s[a + 1] \in {"/", "!"})}
             InTag(i) ==
                 /\ \E g \in closes : g >= i
                 /\ \E a \in opens :
                       a <= i /\ \A g \in closes : ~(a <= g /\ g < i)
             marked == [i \in 1..n |-> IF InTag(i) THEN Dropped ELSE s[i]]
         IN SelectSeq(marked, IsKept)

\* re.sub(r"\s{10,}", "  ", clean): every maximal run of ten or more
\* whitespace characters becomes two spaces.
CollapseWhitespace(s) ==
    IF \A i \in 1..Len(s) : s[i] \notin Whitespace THEN s
    ELSE LET n  == Len(s)
             RunStart(i) ==
                 CHOOSE a \in 1..i :
                     /\ \A j \in a..i : s[j] \in Whitespace
                     /\ (a = 1 \/ s[a - 1] \notin Whitespace)
             RunEnd(i) ==
                 CHOOSE b \in i..n :
                     /\ \A j \in i..b : s[j] \in Whitespace
                     /\ (b = n \/ s[b + 1] \notin Whitespace)
             marked == [i \in 1..n |->
                 IF s[i] \notin Whitespace THEN s[i]
                 ELSE IF RunEnd(i) - RunStart(i) + 1 < 10 THEN s[i]
                 ELSE IF i - RunStart(i) < 2 THEN " "
                 ELSE Dropped]
         IN SelectSeq(marked, IsKept)

Ellipsis == <<".", ".", ".">>

\* clean[:max_length] + "..." when len(clean) > max_length
Truncate(s, max_length) ==
    IF Len(s) > max_length THEN Prefix(s, max_length) \o Ellipsis ELSE s

\* sanitize_string(value, max_length): the str it returns.
sanitize_string(value, max_length) ==
    IF value.t # "str" THEN <<>>
    ELSE LET stripped  == bleach_clean(value.s)
             printable == SelectSeq(stripped, IsNotControl)
             collapsed == CollapseWhitespace(printable)
         IN Strip(Truncate(collapsed, max_length))

HTTP == <<"h", "t", "t", "p", ":", "/", "/">>

HTTPS == <<"h", "t", "t", "p", "s", ":", "/", "/">>

\* The list `dangerous` of sanitize_url.
DangerousTokens ==
    { <<"j", "a", "v", "a", "s", "c", "r", "i", "p", "t", ":">>,
      <<"d", "a", "t", "a", ":">>,
      <<"v", "b", "s", "c", "r", "i", "p", "t", ":">>,
      <<"f", "i", "l", "e", ":">>,
      <<"<", "s", "c", "r", "i", "p", "t">>,
      <<"o", "n", "e", "r", "r", "o", "r", "=">> }

\* url.startswith(("http://", "https://"))
HasHttpScheme(s) == StartsWith(s, HTTP) \/ StartsWith(s, HTTPS)

\* sanitize_url with the dangerous tokens looked for in url, not in
\* url.lower().
sanitize_url_CaseSensitive(url) ==
    IF url.t # "str" THEN None
    ELSE LET u == Strip(url.s)
         IN IF ~HasHttpScheme(u) THEN None
            ELSE IF \E d \in DangerousTokens : Contains(u, d) THEN None
            ELSE IF Len(u) > MAX_URL_LENGTH_CDR THEN None
            ELSE Str(u)

\* sanitize_url(url): None, or the str it returns.
sanitize_url(url) ==
    IF url.t # "str" THEN None
    ELSE LET u == Strip(url.s)
         IN IF ~HasHttpScheme(u) THEN None
            ELSE IF \E d \in DangerousTokens : Contains(Lower(u), d) THEN None
            ELSE IF Len(u) > MAX_URL_LENGTH_CDR THEN None
            ELSE Str(u)

----------------------------------------------------------------------------
(* The field names of the schema                                           *)

K_title == <<"t", "i", "t", "l", "e">>

K_source == <<"s", "o", "u", "r", "c", "e">>

K_source_url == <<"s", "o", "u", "r", "c", "e", "_", "u", "r", "l">>

K_url == <<"u", "r", "l">>

K_link == <<"l", "i", "n", "k">>

K_body == <<"b", "o", "d", "y">>

K_body_text == <<"b", "o", "d", "y", "_", "t", "e", "x", "t">>

K_content == <<"c", "o", "n", "t", "e", "n", "t">>

K_summary == <<"s", "u", "m", "m", "a", "r", "y">>

K_description == <<"d", "e", "s", "c", "r", "i", "p", "t", "i", "o", "n">>

K_date == <<"d", "a", "t", "e">>

K_language == <<"l", "a", "n", "g", "u", "a", "g", "e">>

K_category == <<"c", "a", "t", "e", "g", "o", "r", "y">>

K_author == <<"a", "u", "t", "h", "o", "r">>

K_relevance_tags == <<"r", "e", "l", "e", "v", "a", "n", "c", "e", "_", "t", "a", "g", "s">>

K_metadata == <<"m", "e", "t", "a", "d", "a", "t", "a">>

K_data == <<"d", "a", "t", "a">>

K_source_name == <<"s", "o", "u", "r", "c", "e", "_", "n", "a", "m", "e">>

K_fetch_timestamp == <<"f", "e", "t", "c", "h", "_", "t", "i", "m", "e", "s", "t", "a", "m", "p">>

K_version == <<"v", "e", "r", "s", "i", "o", "n">>

K_cleaned_at == <<"c", "l", "e", "a", "n", "e", "d", "_", "a", "t">>

K_total_scraped == <<"t", "o", "t", "a", "l", "_", "s", "c", "r", "a", "p", "e", "d">>

K_total_fetched == <<"t", "o", "t", "a", "l", "_", "f", "e", "t", "c", "h", "e", "d">>

K_total_relevant == <<"t", "o", "t", "a", "l", "_", "r", "e", "l", "e", "v", "a", "n", "t">>

K_articles == <<"a", "r", "t", "i", "c", "l", "e", "s">>

K_error == <<"e", "r", "r", "o", "r">>

K_feed_errors == <<"f", "e", "e", "d", "_", "e", "r", "r", "o", "r", "s">>

K_feed == <<"f", "e", "e", "d">>

----------------------------------------------------------------------------
(* Python's str(), repr() and int() on the values json.load builds         *)

Abs(n) == IF n < 0 THEN 0 - n ELSE n

Zeros(k) == Rep("0", k)

\* str(x) of an int or float
NumberStr(v) ==
    IF v.t = "int" THEN IntStr(v.n) \o (IF v.n = 0 THEN <<>> ELSE Zeros(v.e))
    ELSE IF ~IsFinite(v) THEN v.s
    ELSE IntStr(v.n) \o <<".">> \o v.s

RECURSIVE PyRepr(_), ReprItems(_, _), ReprPairs(_, _)

\* repr(x); the repr of a str is the str in quotes (the texts of this model
\* hold no quote and no backslash, which repr would escape).
PyRepr(v) ==
    CASE v.t = "null"  -> <<"N", "o", "n", "e">>
      [] v.t = "bool"  -> IF v.b THEN <<"T", "r", "u", "e">>
                          ELSE <<"F", "a", "l", "s", "e">>
      [] v.t \in {"int", "float"} -> NumberStr(v)
      [] v.t = "str"   -> <<"'">> \o v.s \o <<"'">>
      [] v.t = "list"  -> <<"[">> \o ReprItems(v.items, 1) \o <<"]">>
      [] v.t = "dict"  -> <<"{">> \o ReprPairs(v.kv, 1) \o <<"}">>

ReprItems(items, i) ==
    IF i > Len(items) THEN <<>>
    ELSE PyRepr(items[i])
         \o (IF i < Len(items) THEN <<",", " ">> ELSE <<>>)
         \o ReprItems(items, i + 1)

ReprPairs(kv, i) ==
    IF i > Len(kv) THEN <<>>
    ELSE PyRepr(Str(kv[i].k)) \o <<":", " ">> \o PyRepr(kv[i].v)
         \o (IF i < Len(kv) THEN <<",", " ">> ELSE <<>>)
         \o ReprPairs(kv, i + 1)

\* str(x), as a str value
PyStr(v) == IF v.t = "str" THEN v ELSE Str(PyRepr(v))

\* The value of a run of at most nine decimal digits.
RECURSIVE DigitsValue(_)
DigitsValue(ds) ==
    IF ds = <<>> THEN 0
    ELSE DigitsValue(SubSeq(ds, 1, Len(ds) - 1)) * 10
         + ((CHOOSE i \in 1..10 : Digits[i] = ds[Len(ds)]) - 1)

\* int(x): the int, or the exception raised.  A str is stripped and may
\* carry a sign; more than nine digits are kept as n * 10^e.
PyInt(v) ==
    CASE v.t = "bool"  -> Num(IF v.b THEN 1 ELSE 0)
      [] v.t = "int"   -> v
      [] v.t = "float" ->
            IF v.s = NaN.s THEN Raised("ValueError")
            ELSE IF ~IsFinite(v) THEN Raised("OverflowError")
            ELSE Num(v.n)
      [] v.t = "str"   ->
            LET u      == Strip(v.s)
                signed == u # <<>> /\ u[1] \in {"-", "+"}
                ds     == IF signed THEN Tail(u) ELSE u
                sign   == IF signed /\ u[1] = "-" THEN 0 - 1 ELSE 1
            IN IF ds = <<>> \/ \E i \in 1..Len(ds) : ~IsDigit(ds[i])
               THEN Raised("ValueError")
               ELSE IF Len(ds) <= 9 THEN Num(sign * DigitsValue(ds))
               ELSE BigNum(sign * DigitsValue(SubSeq(ds, 1, 9)), Len(ds) - 9)
      [] OTHER         -> Raised("TypeError")

\* 10^k, for k < 10
RECURSIVE Pow10(_)
Pow10(k) == IF k = 0 THEN 1 ELSE 10 * Pow10(k - 1)

\* The clamp, were it to lack its floor: min(x, 100000)
Clamp_NoFloor(x) ==
    IF x.n >= 100000 \/ (x.n > 0 /\ x.e >= 5) THEN 100000
    ELSE x.n

\* max(0, min(x, 100000)) for the int x = n * 10^e
Clamp(x) ==
    IF x.n <= 0 THEN 0
    ELSE IF x.n >= 100000 \/ x.e >= 5 THEN 100000
    ELSE Min2(x.n * Pow10(x.e), 100000)

\* abs(value) > 1e15 for an int or a float
AbsExceeds(v) ==
    IF v.t = "float" /\ ~IsFinite(v) THEN v.s # NaN.s
    ELSE IF v.n = 0 THEN FALSE
    ELSE LET ds      == NatStr(Abs(v.n))
             places  == Len(ds) + v.e
             isPow10 == ds = <<"1">> \o Zeros(Len(ds) - 1)
             hasFrac == v.t = "float" /\ \E i \in 1..Len(v.s) : v.s[i] # "0"
         IN \/ places > HUGE_EXPONENT + 1
            \/ places = HUGE_EXPONENT + 1 /\ (~isPow10 \/ hasFrac)

----------------------------------------------------------------------------
(* scripts/cdr_cleaner.py: the generic reconstructor                       *)

\* if depth > MAX_NESTING_DEPTH: return None
TooDeep_OffByOne(d) == d > MAX_NESTING_DEPTH + 1

TooDeep(d) == d > MAX_NESTING_DEPTH

\* if len(value) > MAX_ARRAY_LENGTH: value = value[:MAX_ARRAY_LENGTH]
ArraySlice_Unbounded(items) == items

ArraySlice(items) == Prefix(items, MAX_ARRAY_LENGTH)

\* The keys of the dict comprehension of reconstruct_value, in turn:
\* sanitize_string(str(k), max_length=200) for k in value
SanitizedKeys(kv) ==
    AsSeq([i \in 1..Len(kv) |-> sanitize_string(Str(kv[i].k), 200)])

IsFirstWriter(keys, i) == \A j \in 1..(i - 1) : keys[j] # keys[i]

\* The places of the pairs whose sanitized key no earlier pair has: the
\* comprehension writes a key where it first meets it.
FirstWriters(kv) ==
    LET keys  == SanitizedKeys(kv)
        IsFirst(i) == IsFirstWriter(keys, i)
    IN SelectSeq(AsSeq([i \in 1..Len(kv) |-> i]), IsFirst)

\* The place of the last pair whose key sanitizes as that of pair i does:
\* a key written again takes the later value.
LastWriter(kv, i) ==
    LET keys == SanitizedKeys(kv)
    IN CHOOSE j \in i..Len(kv) :
           /\ keys[j] = keys[i]
           /\ \A m \in (j + 1)..Len(kv) : keys[m] # keys[i]

RECURSIVE reconstruct_value(_, _)

\* reconstruct_value(value, depth)
reconstruct_value(value, d) ==
    IF TooDeep(d) THEN None
    ELSE CASE value.t = "null" -> None
           [] value.t = "bool" -> value
           [] value.t \in {"int", "float"} ->
                 IF AbsExceeds(value) THEN Num(0) ELSE value
           [] value.t = "str"  -> Str(sanitize_string(value, MAX_STRING_LENGTH))
           [] value.t = "list" ->
                 [value EXCEPT !.items =
                     SubSeq([i \in 1..Len(ArraySlice(value.items)) |->
                                reconstruct_value(value.items[i], d + 1)],
                            1, Len(ArraySlice(value.items)))]
           [] value.t = "dict" ->
                 [value EXCEPT !.kv =
                     SubSeq([p \in 1..Len(FirstWriters(value.kv)) |->
                                [k |-> SanitizedKeys(value.kv)[FirstWriters(value.kv)[p]],
                                 v |-> reconstruct_value(
                                           value.kv[LastWriter(value.kv,
                                                        FirstWriters(value.kv)[p])].v,
                                           d + 1)]],
                            1, Len(FirstWriters(value.kv)))]

----------------------------------------------------------------------------
(* scripts/cdr_cleaner.py: the schema-aware reconstructors                 *)

\* for field in fields: if field in article:
\*     val = sanitize_string(str(article[field]), max_length)
\*     if val: clean[field] = val
RECURSIVE RequiredStrings(_, _, _, _)
RequiredStrings(article, fields, i, clean) ==
    IF i > Len(fields) THEN clean
    ELSE LET field == fields[i]
             val   == sanitize_string(PyStr(Get(article, field)), 500)
         IN RequiredStrings(article, fields, i + 1,
                IF HasKey(article, field) /\ val # <<>>
                THEN DictSet(clean, field, Str(val)) ELSE clean)

\* for field in fields: if field in article:
\*     url = sanitize_url(article[field])
\*     if url: clean[field] = url
\* The loop over the URL fields, were it to stop at the first valid one.
RECURSIVE UrlFields_FirstWins(_, _, _, _)
UrlFields_FirstWins(article, fields, i, clean) ==
    IF i > Len(fields) THEN clean
    ELSE LET field == fields[i]
             url   == sanitize_url(Get(article, field))
         IN IF HasKey(article, field) /\ Truthy(url)
            THEN DictSet(clean, field, url)
            ELSE UrlFields_FirstWins(article, fields, i + 1, clean)

RECURSIVE UrlFields(_, _, _, _)
UrlFields(article, fields, i, clean) ==
    IF i > Len(fields) THEN clean
    ELSE LET field == fields[i]
             url   == sanitize_url(Get(article, field))
         IN UrlFields(article, fields, i + 1,
                IF HasKey(article, field) /\ Truthy(url)
                THEN DictSet(clean, field, url) ELSE clean)

\* for field in fields: if field in article:
\*     clean[field] = sanitize_string(str(article[field]), max_length)
RECURSIVE TextFields(_, _, _, _, _)
TextFields(article, fields, i, max_length, clean) ==
    IF i > Len(fields) THEN clean
    ELSE LET field == fields[i]
         IN TextFields(article, fields, i + 1, max_length,
                IF HasKey(article, field)
                THEN DictSet(clean, field,
                         Str(sanitize_string(PyStr(Get(article, field)), max_length)))
                ELSE clean)

\* re.match(r"^\d{4}-\d{2}-\d{2}", date_val)
LooksLikeDate(s) ==
    /\ Len(s) >= 10
    /\ \A i \in {1, 2, 3, 4, 6, 7, 9, 10} : IsDigit(s[i])
    /\ s[5] = "-"
    /\ s[8] = "-"

\* The date field of an article: str(article["date"])[:20], kept when it
\* looks like a date.
DateField(article, clean) ==
    IF ~HasKey(article, K_date) THEN clean
    ELSE LET date_val == Prefix(PyStr(Get(article, K_date)).s, 20)
         IN IF LooksLikeDate(date_val)
            THEN DictSet(clean, K_date, Str(date_val)) ELSE clean

\* The relevance_tags field of an article: at most 20 tags of at most 50
\* characters, when the input holds a list.
TagsField(article, clean) ==
    IF HasKey(article, K_relevance_tags) /\ Get(article, K_relevance_tags).t = "list"
    THEN LET tags == Prefix(Get(article, K_relevance_tags).items, 20)
         IN DictSet(clean, K_relevance_tags,
                List(AsSeq([i \in 1..Len(tags) |->
                         Str(sanitize_string(PyStr(tags[i]), 50))])))
    ELSE clean

\* The gate, were it to pass every non-empty object.
ArticleGate_NonEmpty(clean) == IF clean # EmptyDict THEN clean ELSE None

\* return clean if clean.get("title") or clean.get("source_url") else None
ArticleGate(clean) ==
    IF Truthy(GetOr(clean, K_title, None)) \/ Truthy(GetOr(clean, K_source_url, None))
    THEN clean ELSE None

\* reconstruct_article, were it to end like the data section: with the
\* generic reconstructor on every key it has not written.
RECURSIVE OtherArticleFields(_, _, _)
OtherArticleFields(article, i, clean) ==
    IF i > Len(article.kv) THEN clean
    ELSE OtherArticleFields(article, i + 1,
             IF HasKey(clean, article.kv[i].k) THEN clean
             ELSE DictSet(clean, article.kv[i].k,
                      reconstruct_value(article.kv[i].v, 0)))

reconstruct_article_Generic(article) ==
    IF article.t # "dict" THEN None
    ELSE LET c1 == RequiredStrings(article, <<K_title, K_source>>, 1, EmptyDict)
             c2 == UrlFields(article, <<K_source_url, K_url, K_link>>, 1, c1)
             c3 == TextFields(article,
                       <<K_body, K_body_text, K_content, K_summary, K_description>>,
                       1, MAX_STRING_LENGTH, c2)
             c4 == DateField(article, c3)
             c5 == TextFields(article, <<K_language, K_category, K_author>>, 1, 100, c4)
             c6 == TagsField(article, c5)
         IN ArticleGate(OtherArticleFields(article, 1, c6))

\* reconstruct_article(article)
reconstruct_article(article) ==
    IF article.t # "dict" THEN None
    ELSE LET c1 == RequiredStrings(article, <<K_title, K_source>>, 1, EmptyDict)
             c2 == UrlFields(article, <<K_source_url, K_url, K_link>>, 1, c1)
             c3 == TextFields(article,
                       <<K_body, K_body_text, K_content, K_summary, K_description>>,
                       1, MAX_STRING_LENGTH, c2)
             c4 == DateField(article, c3)
             c5 == TextFields(article, <<K_language, K_category, K_author>>, 1, 100, c4)
             c6 == TagsField(article, c5)
         IN ArticleGate(c6)

\* ReconstructMetadata, were it to keep a cleaned_at the input brings.
ReconstructMetadata_Copying(meta, now) ==
    Dict(<< KV(K_source_name,
               Str(sanitize_string(PyStr(GetOr(meta, K_source_name, Str(<<>>))), 50))),
            KV(K_fetch_timestamp,
               Str(sanitize_string(PyStr(GetOr(meta, K_fetch_timestamp, Str(<<>>))), 50))),
            KV(K_date,
               Str(sanitize_string(PyStr(GetOr(meta, K_date, Str(<<>>))), 20))),
            KV(K_version,
               Str(sanitize_string(
                   PyStr(GetOr(meta, K_version, Str(<<"0", ".", "1", ".", "0">>))), 20))),
            KV(K_cleaned_at,
               Str(sanitize_string(PyStr(GetOr(meta, K_cleaned_at, Str(now))), 50))) >>)

\* The metadata section: four capped fields and the cleaner's own clock.
ReconstructMetadata(meta, now) ==
    Dict(<< KV(K_source_name,
               Str(sanitize_string(PyStr(GetOr(meta, K_source_name, Str(<<>>))), 50))),
            KV(K_fetch_timestamp,
               Str(sanitize_string(PyStr(GetOr(meta, K_fetch_timestamp, Str(<<>>))), 50))),
            KV(K_date,
               Str(sanitize_string(PyStr(GetOr(meta, K_date, Str(<<>>))), 20))),
            KV(K_version,
               Str(sanitize_string(
                   PyStr(GetOr(meta, K_version, Str(<<"0", ".", "1", ".", "0">>))), 20))),
            KV(K_cleaned_at, Str(now)) >>)

\* data.date
DataDate(raw_data, clean_data) ==
    IF HasKey(raw_data, K_date)
    THEN DictSet(clean_data, K_date,
             Str(sanitize_string(PyStr(Get(raw_data, K_date)), 20)))
    ELSE clean_data

\* data.source_url
DataSourceUrl(raw_data, clean_data) ==
    IF HasKey(raw_data, K_source_url) /\ Truthy(sanitize_url(Get(raw_data, K_source_url)))
    THEN DictSet(clean_data, K_source_url, sanitize_url(Get(raw_data, K_source_url)))
    ELSE clean_data

CounterFields == <<K_total_scraped, K_total_fetched, K_total_relevant>>

\* The counters: max(0, min(int(x), 100000)), and 0 on ValueError or
\* TypeError.
RECURSIVE DataCounters(_, _, _)
DataCounters(raw_data, i, clean_data) ==
    IF i > Len(CounterFields) THEN clean_data
    ELSE LET field == CounterFields[i]
             x     == PyInt(Get(raw_data, field))
         IN DataCounters(raw_data, i + 1,
                IF ~HasKey(raw_data, field) THEN clean_data
                ELSE IF x.t = "raise" THEN DictSet(clean_data, field, Num(0))
                ELSE DictSet(clean_data, field, Num(Clamp(x))))

\* An exception of the counters that their except clause does not catch.
CountersRaise(raw_data) ==
    \E i \in 1..Len(CounterFields) :
        /\ HasKey(raw_data, CounterFields[i])
        /\ PyInt(Get(raw_data, CounterFields[i])) = Raised("OverflowError")

\* The loop over raw_data["articles"][:MAX_ARRAY_LENGTH]: the articles
\* reconstruct_article returns, in order.
RECURSIVE CleanArticles(_, _, _)
CleanArticles(articles, i, clean_articles) ==
    IF i > Len(articles) THEN clean_articles
    ELSE LET clean_art == reconstruct_article(articles[i])
         IN CleanArticles(articles, i + 1,
                IF Truthy(clean_art) THEN Append(clean_articles, clean_art)
                ELSE clean_articles)

\* data.articles
DataArticles(raw_data, clean_data) ==
    IF HasKey(raw_data, K_articles) /\ Get(raw_data, K_articles).t = "list"
    THEN DictSet(clean_data, K_articles,
             List(CleanArticles(
                 Prefix(Get(raw_data, K_articles).items, MAX_ARRAY_LENGTH), 1, <<>>)))
    ELSE clean_data

\* data.error
DataError(raw_data, clean_data) ==
    IF HasKey(raw_data, K_error)
    THEN DictSet(clean_data, K_error,
             Str(sanitize_string(PyStr(Get(raw_data, K_error)), 500)))
    ELSE clean_data

IsDictValue(v) == v.t = "dict"

\* One entry of data.feed_errors
FeedError(e) ==
    LET feed == sanitize_url(GetOr(e, K_feed, Str(<<>>)))
    IN Dict(<< KV(K_feed, IF Truthy(feed) THEN feed
                          ELSE Str(<<"u", "n", "k", "n", "o", "w", "n">>)),
               KV(K_error,
                  Str(sanitize_string(PyStr(GetOr(e, K_error, Str(<<>>))), 200))) >>)

\* data.feed_errors
DataFeedErrors(raw_data, clean_data) ==
    IF HasKey(raw_data, K_feed_errors) /\ Get(raw_data, K_feed_errors).t = "list"
    THEN LET es == SelectSeq(Prefix(Get(raw_data, K_feed_errors).items, 50), IsDictValue)
         IN DictSet(clean_data, K_feed_errors,
                List(AsSeq([i \in 1..Len(es) |-> FeedError(es[i])])))
    ELSE clean_data

\* for key, value in raw_data.items():
\*     if key not in clean_data: clean_data[key] = reconstruct_value(value)
RECURSIVE GenericFields(_, _, _)
GenericFields(raw_data, i, clean_data) ==
    IF i > Len(raw_data.kv) THEN clean_data
    ELSE GenericFields(raw_data, i + 1,
             IF HasKey(clean_data, raw_data.kv[i].k) THEN clean_data
             ELSE DictSet(clean_data, raw_data.kv[i].k,
                      reconstruct_value(raw_data.kv[i].v, 0)))

\* The data section
ReconstructData(raw_data) ==
    LET d1 == DataDate(raw_data, EmptyDict)
        d2 == DataSourceUrl(raw_data, d1)
        d3 == DataCounters(raw_data, 1, d2)
        d4 == DataArticles(raw_data, d3)
        d5 == DataError(raw_data, d4)
        d6 == DataFeedErrors(raw_data, d5)
    IN GenericFields(raw_data, 1, d6)

\* `key in data and isinstance(data[key], dict)` on the root json.load
\* returned: "ok" when it is true, "no" when it is false, "raise" when it
\* raises TypeError (the root is no container, or it is a str or a list
\* that holds the key and cannot be indexed by it).
RootSection(data, key) ==
    CASE data.t = "dict" ->
            IF HasKey(data, key) /\ Get(data, key).t = "dict" THEN "ok" ELSE "no"
      [] data.t = "str"  -> IF Contains(data.s, key) THEN "raise" ELSE "no"
      [] data.t = "list" ->
            IF \E i \in 1..Len(data.items) : data.items[i] = Str(key)
            THEN "raise" ELSE "no"
      [] OTHER -> "raise"

\* reconstruct_fetcher_output(data), at the clock reading now
reconstruct_fetcher_output(data, now) ==
    LET m == RootSection(data, K_metadata)
        d == RootSection(data, K_data)
    IN IF m = "raise" \/ d = "raise" THEN Raised("TypeError")
       ELSE IF d = "ok" /\ CountersRaise(Get(data, K_data)) THEN Raised("OverflowError")
       ELSE LET c1 == IF m = "ok"
                      THEN DictSet(EmptyDict, K_metadata,
                               ReconstructMetadata(Get(data, K_metadata), now))
                      ELSE EmptyDict
            IN IF d = "ok"
               THEN DictSet(c1, K_data, ReconstructData(Get(data, K_data)))
               ELSE c1

----------------------------------------------------------------------------
(* scripts/validate_output.py: the Validator                               *)

MAX_STRING_LENGTH_V == 100000

MAX_URL_LENGTH == 2048

\* What a check answers: Passed, or the ValidationError it raises, with the
\* field path of its message.
Passed == [ok |-> TRUE, kind |-> "", path |-> <<>>]

ValidationError(kind, path) == [ok |-> FALSE, kind |-> kind, path |-> path]

\* check_json_structure, were it to ask for all three expected fields.
check_json_structure_AllRequired(data) ==
    IF data.t # "dict" THEN ValidationError("RootNotObject", <<>>)
    ELSE IF ~HasKey(data, K_metadata) THEN Passed
    ELSE LET meta == Get(data, K_metadata)
         IN IF meta.t # "dict" THEN ValidationError("MetadataNotObject", <<>>)
            ELSE IF ~({K_source_name, K_fetch_timestamp, K_date} \subseteq Keys(meta))
                 THEN ValidationError("MetadataMissingFields", <<>>)
            ELSE Passed

\* check_json_structure(data)
check_json_structure(data) ==
    IF data.t # "dict" THEN ValidationError("RootNotObject", <<>>)
    ELSE IF ~HasKey(data, K_metadata) THEN Passed
    ELSE LET meta == Get(data, K_metadata)
         IN IF meta.t # "dict" THEN ValidationError("MetadataNotObject", <<>>)
            ELSE IF Keys(meta) \cap {K_source_name, K_fetch_timestamp, K_date} = {}
                 THEN ValidationError("MetadataMissingFields", <<>>)
            ELSE Passed

\* s[i:] starts with word
MatchAt(s, i, word) ==
    /\ i + Len(word) - 1 <= Len(s)
    /\ s[i] = word[1]
    /\ SubSeq(s, i, i + Len(word) - 1) = word

\* The regex  word\s*c  matches somewhere in s.
ContainsThenChar(s, word, c) ==
    \E i \in 1..(Len(s) - Len(word) + 1) :
        /\ MatchAt(s, i, word)
        /\ \E q \in (i + Len(word))..Len(s) :
              /\ s[q] = c
              /\ \A j \in (i + Len(word))..(q - 1) : s[j] \in Whitespace

\* The regex  <tag[^>]*>  matches somewhere in s.
ContainsOpenTag(s, tag) ==
    \E i \in 1..(Len(s) - Len(tag) + 1) :
        /\ MatchAt(s, i, tag)
        /\ \E q \in (i + Len(tag))..Len(s) : s[q] = ">"

IsHexDigit(c) == IsDigit(c) \/ c \in {"a", "b", "c", "d", "e", "f"}

\* The regex  \\x[0-9a-fA-F]{2}\\x[0-9a-fA-F]{2}  matches somewhere in the
\* lowercased s.
ContainsHexEscapes(s) ==
    \E i \in 1..(Len(s) - 7) :
        /\ s[i] = "\\" /\ s[i + 1] = "x"
        /\ IsHexDigit(s[i + 2]) /\ IsHexDigit(s[i + 3])
        /\ s[i + 4] = "\\" /\ s[i + 5] = "x"
        /\ IsHexDigit(s[i + 6]) /\ IsHexDigit(s[i + 7])

EventHandlers ==
    { <<"o", "n", "c", "l", "i", "c", "k">>,
      <<"o", "n", "e", "r", "r", "o", "r">>,
      <<"o", "n", "l", "o", "a", "d">>,
      <<"o", "n", "m", "o", "u", "s", "e", "o", "v", "e", "r">>,
      <<"o", "n", "f", "o", "c", "u", "s">>,
      <<"o", "n", "b", "l", "u", "r">> }

PlainPatterns ==
    { <<"j", "a", "v", "a", "s", "c", "r", "i", "p", "t", ":">>,
      <<"d", "a", "t", "a", ":", "t", "e", "x", "t", "/", "h", "t", "m", "l">>,
      <<".", ".", "/", ".", ".", "/">>,
      <<"f", "i", "l", "e", ":", "/", "/">>,
      <<"d", "o", "c", "u", "m", "e", "n", "t", ".", "w", "r", "i", "t", "e">>,
      <<"d", "o", "c", "u", "m", "e", "n", "t", ".", "c", "o", "o", "k", "i", "e">>,
      <<"d", "o", "c", "u", "m", "e", "n", "t", ".", "l", "o", "c", "a", "t", "i", "o", "n">>,
      <<"d", "o", "c", "u", "m", "e", "n", "t", ".", "b", "o", "d", "y">>,
      <<"d", "o", "c", "u", "m", "e", "n", "t", ".", "h", "e", "a", "d">>,
      <<"d", "o", "c", "u", "m", "e", "n", "t", ".", "g", "e", "t", "e", "l", "e", "m", "e", "n", "t", "b", "y", "i", "d">>,
      <<"d", "o", "c", "u", "m", "e", "n", "t", ".", "q", "u", "e", "r", "y", "s", "e", "l", "e", "c", "t", "o", "r">>,
      <<"w", "i", "n", "d", "o", "w", ".", "l", "o", "c", "a", "t", "i", "o", "n">>,
      <<"w", "i", "n", "d", "o", "w", ".", "o", "p", "e", "n">>,
      <<"w", "i", "n", "d", "o", "w", ".", "e", "v", "a", "l">>,
      <<"w", "i", "n", "d", "o", "w", ".", "e", "x", "e", "c", "s", "c", "r", "i", "p", "t">> }

DeniedTags ==
    { <<"<", "s", "c", "r", "i", "p", "t">>,
      <<"<", "i", "f", "r", "a", "m", "e">>,
      <<"<", "o", "b", "j", "e", "c", "t">>,
      <<"<", "e", "m", "b", "e", "d">> }

\* SUSPICIOUS_REGEX.search(value): the patterns are matched ignoring case.
SUSPICIOUS_REGEX(value) ==
    LET low == Lower(value)
    IN \/ \E tag \in DeniedTags : ContainsOpenTag(low, tag)
       \/ \E w \in PlainPatterns : Contains(low, w)
       \/ \E h \in EventHandlers : ContainsThenChar(low, h, "=")
       \/ ContainsHexEscapes(low)
       \/ ContainsThenChar(low, <<"e", "v", "a", "l">>, "(")

\* check_string_content(value, path)
check_string_content(value, path) ==
    IF Len(value) > MAX_STRING_LENGTH_V THEN ValidationError("StringTooLong", path)
    ELSE IF SUSPICIOUS_REGEX(value) THEN ValidationError("SuspiciousPattern", path)
    ELSE Passed

UrlFieldNames ==
    { <<"u", "r", "l">>,
      <<"s", "o", "u", "r", "c", "e", "_", "u", "r", "l">>,
      <<"l", "i", "n", "k">>,
      <<"h", "r", "e", "f">>,
      <<"i", "m", "a", "g", "e", "_", "u", "r", "l">>,
      <<"t", "h", "u", "m", "b", "n", "a", "i", "l">> }

IsNotCloseBracket(c) == c # "]"

\* is_url_field, were it to look at the last part of the path only.
is_url_field_LastOnly(path) ==
    LET low   == Lower(path)
        dots  == AsSeq([i \in 1..Len(low) |-> IF low[i] = "[" THEN "." ELSE low[i]])
        parts == SelectSeq(dots, LAMBDA c : c # "]")
    IN \E w \in UrlFieldNames :
           /\ Len(parts) >= Len(w)
           /\ SubSeq(parts, Len(parts) - Len(w) + 1, Len(parts)) = w
           /\ (Len(parts) = Len(w) \/ parts[Len(parts) - Len(w)] = ".")

\* is_url_field(path): some part of
\* path.lower().replace("[", ".").replace("]", "").split(".") is a URL field.
is_url_field(path) ==
    LET low   == Lower(path)
        dots  == AsSeq([i \in 1..Len(low) |-> IF low[i] = "[" THEN "." ELSE low[i]])
        parts == SelectSeq(dots, IsNotCloseBracket)
    IN \E w \in UrlFieldNames : \E i \in 1..(Len(parts) - Len(w) + 1) :
           /\ MatchAt(parts, i, w)
           /\ (i = 1 \/ parts[i - 1] = ".")
           /\ (i + Len(w) - 1 = Len(parts) \/ parts[i + Len(w)] = ".")

SchemeSeparator == <<":", "/", "/">>

\* url.split("://")[0]
BeforeSeparator(url) ==
    LET i == CHOOSE i \in 1..Len(url) :
                 /\ MatchAt(url, i, SchemeSeparator)
                 /\ \A j \in 1..(i - 1) : ~MatchAt(url, j, SchemeSeparator)
    IN SubSeq(url, 1, i - 1)

DangerousProtocols ==
    { <<"j", "a", "v", "a", "s", "c", "r", "i", "p", "t">>,
      <<"d", "a", "t", "a">>,
      <<"f", "i", "l", "e">>,
      <<"v", "b", "s", "c", "r", "i", "p", "t">> }

\* check_url(url, path)
check_url(url, path) ==
    IF Len(url) > MAX_URL_LENGTH THEN ValidationError("UrlTooLong", path)
    ELSE IF \/ Contains(url, <<".", ".">>)
            \/ StartsWith(url, <<"/", "e", "t", "c", "/">>)
            \/ StartsWith(url, <<"/", "p", "r", "o", "c", "/">>)
         THEN ValidationError("PathTraversal", path)
    ELSE IF HasHttpScheme(url) THEN Passed
    ELSE IF Contains(url, SchemeSeparator)
            /\ Lower(BeforeSeparator(url)) \in DangerousProtocols
         THEN ValidationError("DangerousProtocol", path)
    ELSE Passed

\* The protocols validate_value looks for in any str that holds "://".
ScannedProtocols ==
    { <<"j", "a", "v", "a", "s", "c", "r", "i", "p", "t", ":">>,
      <<"d", "a", "t", "a", ":", "t", "e", "x", "t", "/", "h", "t", "m", "l">>,
      <<"f", "i", "l", "e", ":", "/", "/">>,
      <<"v", "b", "s", "c", "r", "i", "p", "t", ":">> }

\* validate_value on a str
ValidateString(value, path) ==
    LET content == check_string_content(value, path)
    IN IF ~content.ok THEN content
       ELSE IF is_url_field(path) /\ HasHttpScheme(value) THEN check_url(value, path)
       ELSE IF Contains(value, SchemeSeparator)
               /\ \E proto \in ScannedProtocols : Contains(Lower(value), proto)
            THEN ValidationError("DangerousProtocol", path)
       ELSE Passed

\* f"{path}.{key}" if path else key
KeyPath(path, key) == IF path # <<>> THEN path \o <<".">> \o key ELSE key

\* f"{path}[{i}]", for the i-th element counted from 0
IndexPath(path, i) == path \o <<"[">> \o NatStr(i) \o <<"]">>

RECURSIVE validate_value(_, _), ValidatePairs(_, _, _), ValidateItems(_, _, _)

\* validate_value(value, path): the first ValidationError of the walk, which
\* ends it.
validate_value(value, path) ==
    CASE value.t = "str"  -> ValidateString(value.s, path)
      [] value.t = "dict" -> ValidatePairs(value.kv, 1, path)
      [] value.t = "list" -> ValidateItems(value.items, 1, path)
      [] OTHER            -> Passed

\* The loop over a dict, were it to go on after an error and report the
\* last one.
RECURSIVE ValidatePairs_LastWins(_, _, _)
ValidatePairs_LastWins(kv, i, path) ==
    IF i > Len(kv) THEN Passed
    ELSE LET r    == validate_value(kv[i].v, KeyPath(path, kv[i].k))
             rest == ValidatePairs_LastWins(kv, i + 1, path)
         IN IF ~rest.ok THEN rest ELSE r

ValidatePairs(kv, i, path) ==
    IF i > Len(kv) THEN Passed
    ELSE LET r == validate_value(kv[i].v, KeyPath(path, kv[i].k))
         IN IF ~r.ok THEN r ELSE ValidatePairs(kv, i + 1, path)

ValidateItems(items, i, path) ==
    IF i > Len(items) THEN Passed
    ELSE LET r == validate_value(items[i], IndexPath(path, i - 1))
         IN IF ~r.ok THEN r ELSE ValidateItems(items, i + 1, path)

\* validate_file(path), on the document json.load returned: the structure,
\* then every value.
validate_file(data) ==
    LET structure == check_json_structure(data)
    IN IF ~structure.ok THEN structure ELSE validate_value(data, <<>>)

----------------------------------------------------------------------------
(* The texts the inputs are built from                                     *)

\* How many characters, elements or levels past a cap the inputs go.
Excess == 2

T_empty == <<>>

T_plain == <<"C", "a", "n", "a", "d", "a">>

T_spaces == <<" ", " ">>

T_markup == <<"<", "b", ">", "B", "o", "l", "d", "<", "/", "b", ">", " ", "t", "e", "x", "t">>

T_image == <<"<", "i", "m", "g", " ", "s", "r", "c", "=", "x", " ", "o", "n", "e", "r", "r", "o", "r", "=", "a", "l", "e", "r", "t", "(", "1", ")", ">", "T", "e", "x", "t">>

T_control == <<"a", "NUL", "b">>

T_script == <<"j", "a", "v", "a", "s", "c", "r", "i", "p", "t", ":", "a", "l", "e", "r", "t", "(", "1", ")">>

T_eval == <<"c", "a", "l", "l", " ", "e", "v", "a", "l", " ", "(", "x", ")">>

T_padded == <<" ", " ", "p", "a", "d", "d", "e", "d", " ", "	">>

T_gap == <<"a">> \o Rep(" ", 10 + Excess) \o <<"b">>

\* A text of cap + k characters, and one with a space before it.
Long(cap, k) == Rep("a", cap + k)

LeadLong(cap, k) == <<" ">> \o Rep("a", cap + k)

U_https == <<"h", "t", "t", "p", "s", ":", "/", "/", "e", "x", "a", "m", "p", "l", "e", ".", "g", "o", "v", "/", "a">>

U_http == <<"h", "t", "t", "p", ":", "/", "/", "b", ".", "c", "a", "/", "x", "?", "y", "=", "1">>

U_upper == <<"H", "T", "T", "P", "S", ":", "/", "/", "e", "x", "a", "m", "p", "l", "e", ".", "g", "o", "v", "/", "a">>

U_ftp == <<"f", "t", "p", ":", "/", "/", "e", "x", "a", "m", "p", "l", "e", ".", "g", "o", "v", "/", "a">>

U_js == <<"j", "a", "v", "a", "s", "c", "r", "i", "p", "t", ":", "a", "l", "e", "r", "t", "(", "1", ")">>

U_query_js == <<"h", "t", "t", "p", ":", "/", "/", "b", ".", "c", "a", "/", "?", "n", "e", "x", "t", "=", "J", "a", "v", "a", "S", "c", "r", "i", "p", "t", ":", "x">>

U_query_data == <<"h", "t", "t", "p", "s", ":", "/", "/", "b", ".", "c", "a", "/", "?", "u", "=", "d", "a", "t", "a", ":", "t", "e", "x", "t">>

U_onerror == <<"h", "t", "t", "p", "s", ":", "/", "/", "b", ".", "c", "a", "/", "?", "q", "=", "O", "N", "E", "R", "R", "O", "R", "=", "1">>

U_script == <<"h", "t", "t", "p", "s", ":", "/", "/", "b", ".", "c", "a", "/", "<", "s", "c", "r", "i", "p", "t", ">">>

U_file == <<"h", "t", "t", "p", "s", ":", "/", "/", "b", ".", "c", "a", "/", "p", "r", "o", "f", "i", "l", "e", ":", "m", "e">>

U_vbs == <<"h", "t", "t", "p", ":", "/", "/", "b", ".", "c", "a", "/", "v", "b", "s", "c", "r", "i", "p", "t", ":", "x">>

U_dots == <<"h", "t", "t", "p", "s", ":", "/", "/", "b", ".", "c", "a", "/", ".", ".", "/", ".", ".", "/", "e", "t", "c", "/", "p", "a", "s", "s", "w", "d">>

U_relative == <<"/", "e", "t", "c", "/", "p", "a", "s", "s", "w", "d">>

\* An http URL of exactly n characters.
UrlOfLength(n) == HTTP \o Rep("a", n - Len(HTTP))

Unset == Val("unset", FALSE, 0, 0, <<>>, <<>>, <<>>)

NoVerdict == [ok |-> FALSE, kind |-> "unset", path |-> <<>>]

----------------------------------------------------------------------------
(* sanitize_url called on its own                                          *)

UrlBodies ==
    { U_https, U_http, U_upper, U_ftp, U_js, U_query_js, U_query_data,
      U_onerror, U_script, U_file, U_vbs, U_dots, U_relative, T_empty, T_plain }
    \cup { UrlOfLength(MAX_URL_LENGTH_CDR - 1 + k) : k \in 0..Excess }

UrlArgs ==
    { Str(lead \o u \o trail) :
        lead \in {<<>>, <<" ">>, <<"\n", " ">>},
        u \in UrlBodies,
        trail \in {<<>>, <<" ">>} }
    \cup { None, Bool(TRUE), Num(80), Float(1, <<"5">>), List(<<Str(U_https)>>),
           Dict(<<KV(K_url, Str(U_https))>>) }

InitUrl ==
    /\ arg \in UrlArgs
    /\ ret = Unset
    /\ pc = "call"
    /\ depth = 0
    /\ raw_doc = Unset /\ clean_doc = Unset /\ second_doc = Unset
    /\ verdict = NoVerdict
    /\ NoBatch
    /\ NoOthers

CallSanitizeUrl ==
    /\ pc = "call"
    /\ ret' = sanitize_url(arg)
    /\ pc' = "return"
    /\ UNCHANGED <<arg, depth, raw_doc, clean_doc, second_doc, verdict>>
    /\ UNCHANGED batch
    /\ UNCHANGED others

NextUrl == CallSanitizeUrl

SpecUrl == InitUrl /\ [][NextUrl]_vars

\* C3, as stated: sanitize_url(s) is null unless s itself starts with
\* "http://" or "https://", has at most 2048 characters and its lowercased
\* form holds none of the dangerous tokens; it is null for every non-string.
C3_AsStated ==
    pc = "return" =>
        IF arg.t # "str" THEN ret = None
        ELSE ret # None =>
                /\ HasHttpScheme(arg.s)
                /\ Len(arg.s) <= 2048
                /\ \A d \in DangerousTokens : ~Contains(Lower(arg.s), d)

\* C3, amended: sanitize_url(s) is null unless s with its leading and
\* trailing whitespace removed starts with "http://" or "https://", has at
\* most 2048 characters and its lowercased form holds none of the dangerous
\* tokens, and then the result is that stripped string; it is null for
\* every non-string.
C3_UrlAllowList ==
    pc = "return" =>
        IF arg.t # "str" THEN ret = None
        ELSE ret # None =>
                /\ ret.t = "str"
                /\ ret.s = Strip(arg.s)
                /\ StartsWith(ret.s, HTTP) \/ StartsWith(ret.s, HTTPS)
                /\ Len(ret.s) <= 2048
                /\ \A d \in DangerousTokens : ~Contains(Lower(ret.s), d)

\* A URL with whitespace around it was accepted, stripped.
C3_Witness ==
    /\ pc = "return"
    /\ arg.t = "str"
    /\ ret # None
    /\ ret.s # arg.s
    /\ ~HasHttpScheme(arg.s)

----------------------------------------------------------------------------
(* reconstruct_value called on its own                                     *)

\* leaf inside n containers: lists, dicts, the two in turn, or lists that
\* hold other elements beside the nested one.
RECURSIVE Nest(_, _, _)
Nest(kind, n, leaf) ==
    IF n = 0 THEN leaf
    ELSE CASE kind = "list" ->
                 [List(<<>>) EXCEPT !.items = <<Nest(kind, n - 1, leaf)>>]
           [] kind = "dict" ->
                 [EmptyDict EXCEPT !.kv = <<[k |-> <<"k">>, v |-> Nest(kind, n - 1, leaf)]>>]
           [] kind = "mix" /\ n % 2 = 0 ->
                 [List(<<>>) EXCEPT !.items = <<Nest(kind, n - 1, leaf)>>]
           [] kind = "mix" /\ n % 2 = 1 ->
                 [EmptyDict EXCEPT !.kv =
                     <<[k |-> <<"k", "<i>">>, v |-> Nest(kind, n - 1, leaf)]>>]
           [] kind = "wide" ->
                 [List(<<>>) EXCEPT
                     !.items = <<Num(n), Nest(kind, n - 1, leaf), Str(T_markup)>>]

\* The list of the ints 1..n
Counting(n) == List(AsSeq([i \in 1..n |-> Num(i)]))

Leaves == { None, Num(7), Str(T_markup), List(<<>>), Dict(<<>>) }

Scalars ==
    { None, Bool(TRUE), Bool(FALSE), Num(0), Num(0 - 5), BigNum(1, 15),
      BigNum(10, 14), BigNum(0 - 1, 15), BigNum(2, 15), BigNum(0 - 1000001, 9),
      BigNum(999999999, 6), BigNum(999999999, 7), Float(3, <<"5">>),
      Float(0 - 3, <<"0">>), NaN, Infinity, MinusInfinity,
      Str(T_plain), Str(T_markup), Str(T_control), Str(T_gap), Str(T_padded),
      Str(T_image), Str(Long(MAX_STRING_LENGTH, Excess)) }

\* The calls: (value, depth).
ValueCalls ==
    { <<Nest(kind, n, leaf), 0>> :
        kind \in {"list", "dict", "mix", "wide"},
        n \in 1..(MAX_NESTING_DEPTH + 1 + Excess),
        leaf \in Leaves }
    \cup { <<v, d>> : v \in Scalars, d \in {0, MAX_NESTING_DEPTH, MAX_NESTING_DEPTH + 1} }
    \cup { <<Counting(MAX_ARRAY_LENGTH - 1 + k), d>> :
             k \in 0..(Excess + 1), d \in {0, MAX_NESTING_DEPTH} }
    \cup { <<List(<<Num(0), Counting(MAX_ARRAY_LENGTH + k)>>), 0>> : k \in 0..Excess }

InitValue ==
    /\ \E c \in ValueCalls : arg = c[1] /\ depth = c[2]
    /\ ret = Unset
    /\ pc = "call"
    /\ raw_doc = Unset /\ clean_doc = Unset /\ second_doc = Unset
    /\ verdict = NoVerdict
    /\ NoBatch
    /\ NoOthers

CallReconstructValue ==
    /\ pc = "call"
    /\ ret' = reconstruct_value(arg, depth)
    /\ pc' = "return"
    /\ UNCHANGED <<arg, depth, raw_doc, clean_doc, second_doc, verdict>>
    /\ UNCHANGED batch
    /\ UNCHANGED others

NextValue == CallReconstructValue

SpecValue == InitValue /\ [][NextValue]_vars

\* The number of container levels of a value: 0 for a scalar.
RECURSIVE Nesting(_)
Nesting(v) ==
    CASE v.t = "list" ->
            1 + (IF v.items = <<>> THEN 0
                 ELSE LET ns == {Nesting(v.items[i]) : i \in 1..Len(v.items)}
                      IN CHOOSE m \in ns : \A k \in ns : k <= m)
      [] v.t = "dict" ->
            1 + (IF v.kv = <<>> THEN 0
                 ELSE LET ns == {Nesting(v.kv[i].v) : i \in 1..Len(v.kv)}
                      IN CHOOSE m \in ns : \A k \in ns : k <= m)
      [] OTHER -> 0

\* The sub-values of v that lie k levels below it.
RECURSIVE Below(_, _)
Below(v, k) ==
    IF k = 0 THEN {v}
    ELSE CASE v.t = "list" ->
                 UNION {Below(v.items[i], k - 1) : i \in 1..Len(v.items)}
           [] v.t = "dict" ->
                 UNION {Below(v.kv[i].v, k - 1) : i \in 1..Len(v.kv)}
           [] OTHER -> {}

\* C4: reconstruct_value(v, 0) returns (it raises nothing); every sub-value
\* the walk reaches at a depth greater than 20 is null in the result, so the
\* result nests at most 21 container levels.
C4_DepthBound ==
    pc = "return" /\ depth = 0 =>
        /\ ret.t \notin {"raise", "unset"}
        /\ Nesting(ret) <= 21
        /\ \A x \in Below(ret, 21) : x = None

\* A value nested deeper than 21 levels was cut: the result holds a null at
\* depth 21 where the input held a container.
C4_Witness ==
    /\ pc = "return" /\ depth = 0
    /\ Nesting(arg) > 22
    /\ Nesting(ret) = 21
    /\ Below(ret, 21) = {None}
    /\ \E x \in Below(arg, 21) : x.t \in {"list", "dict"}

\* C5: on an array of n elements reached at a depth of at most 20,
\* reconstruct_value returns an array of min(n, 10000) elements, the
\* reconstructions at depth + 1 of the first min(n, 10000) input elements in
\* their order.
C5_ArrayBound ==
    pc = "return" /\ arg.t = "list" /\ depth <= 20 =>
        /\ ret.t = "list"
        /\ Len(ret.items) = Min2(Len(arg.items), 10000)
        /\ \A i \in 1..Len(ret.items) :
              ret.items[i] = reconstruct_value(arg.items[i], depth + 1)
        /\ depth < 20 /\ Len(arg.items) >= 10000 /\ arg.items[10000] = Num(10000)
              => ret.items[Len(ret.items)] = Num(10000)

\* An array of more than 10000 elements came back with 10000.
C5_Witness ==
    /\ pc = "return" /\ arg.t = "list"
    /\ Len(arg.items) > 10000
    /\ ret.t = "list" /\ Len(ret.items) = 10000

----------------------------------------------------------------------------
(* The documents the pipeline is run on                                    *)

D_day == <<"2", "0", "2", "6", "-", "0", "2", "-", "0", "3">>

D_stamp == <<"2", "0", "2", "6", "-", "0", "2", "-", "0", "3", "T", "0", "4", ":", "0", "5", ":", "0", "6", "Z">>

D_script == <<"2", "0", "2", "6", "-", "0", "2", "-", "0", "3", "<", "s", "c", "r", "i", "p", "t", ">">>

D_long == <<"2", "0", "2", "6", "-", "0", "2", "-", "0", "3", "T", "0", "4", ":", "0", "5", ":", "0", "6", ".", "1", "2", "3", "4", "5", "6", "+", "0", "0", ":", "0", "0">>

K_extra == <<"e", "x", "t", "r", "a">>

K_markup == <<"x", "<", "i", ">", "y">>

K_plain == <<"x", "y">>

\* datetime.now(UTC).isoformat().replace("+00:00", "Z"), at two readings
Clock ==
    { <<"2", "0", "2", "6", "-", "0", "2", "-", "0", "4", "T", "0", "0", ":", "0", "0", ":", "0", "0", ".", "0", "0", "0", "0", "0", "1", "Z">>,
      <<"2", "0", "2", "6", "-", "0", "2", "-", "0", "5", "T", "1", "2", ":", "3", "0", ":", "0", "0", ".", "2", "5", "0", "0", "0", "0", "Z">> }

TitleParts ==
    { <<>>,
      <<KV(K_title, Str(T_plain))>>,
      <<KV(K_title, Str(T_spaces))>>,
      <<KV(K_title, Num(5))>>,
      <<KV(K_title, None)>>,
      <<KV(K_title, Str(LeadLong(500, Excess)))>>,
      <<KV(K_title, Str(T_script))>> }

UrlParts ==
    { <<>>,
      <<KV(K_source_url, Str(U_https))>>,
      <<KV(K_source_url, Str(U_js))>>,
      <<KV(K_url, Str(U_http))>>,
      <<KV(K_link, Str(U_http)), KV(K_url, Str(U_https)), KV(K_source_url, Str(U_https))>>,
      <<KV(K_source_url, Str(U_ftp)), KV(K_url, Str(<<" ">> \o U_http)), KV(K_link, Str(U_dots))>>,
      <<KV(K_source_url, Num(1)), KV(K_link, Str(U_upper))>> }

RestParts ==
    { <<>>,
      <<KV(K_body, Str(T_image))>>,
      <<KV(K_body, Dict(<<KV(K_markup, Str(T_markup))>>)), KV(K_extra, Num(1)),
        KV(K_author, None), KV(K_language, Str(T_plain)),
        KV(K_cleaned_at, Str(D_stamp))>>,
      <<KV(K_date, Str(D_day)), KV(K_source, Str(Long(500, Excess))),
        KV(K_relevance_tags, List(<<Str(T_markup), Num(1), None, Str(Long(50, Excess))>>))>>,
      <<KV(K_date, Str(D_script)), KV(K_category, Str(T_control)),
        KV(K_content, Str(T_gap))>>,
      <<KV(K_date, Num(20260203)), KV(K_relevance_tags, Str(T_plain)),
        KV(K_summary, Str(T_eval)), KV(K_source, Str(T_markup)),
        KV(K_description, List(<<Str(T_markup)>>)), KV(K_body_text, Str(D_long))>>,
      <<KV(K_date, Str(D_long)), KV(K_source, Str(T_spaces)),
        KV(K_relevance_tags, Counting(20 + Excess)),
        KV(K_metadata, Dict(<<>>))>> }

ArticleChoices ==
    { Dict(title \o url \o rest) :
        title \in TitleParts, url \in UrlParts, rest \in RestParts }
    \cup { None, Num(4), Str(T_plain), List(<<Str(T_plain)>>), EmptyDict }

MetaDefault ==
    Dict(<< KV(K_source_name, Str(<<"m", "f", "a">>)),
            KV(K_fetch_timestamp, Str(D_stamp)),
            KV(K_date, Str(D_day)),
            KV(K_version, Str(<<"0", ".", "2", ".", "0">>)) >>)

MetaChoices ==
    { MetaDefault,
      EmptyDict,
      Dict(<< KV(K_source_name, Str(LeadLong(50, Excess))),
              KV(K_fetch_timestamp, Str(Long(50, Excess))),
              KV(K_date, Str(LeadLong(20, Excess))),
              KV(K_version, Str(Long(20, Excess))) >>),
      Dict(<< KV(K_source_name, Str(Long(50, 0))),
              KV(K_fetch_timestamp, Str(D_long)),
              KV(K_date, Str(Long(20, 0) \o <<" ">>)),
              KV(K_version, Str(<<" ">> \o Long(20, 0))) >>),
      Dict(<< KV(K_source_name, Str(<<"m", "f", "a">>)),
              KV(K_cleaned_at, Str(D_stamp)),
              KV(K_extra, Str(T_plain)) >>),
      Dict(<< KV(K_source_name, Str(<<"m", "f", "a">>)),
              KV(K_cleaned_at, Str(T_script)),
              KV(K_markup, Num(1)) >>),
      Dict(<< KV(K_source_name, Num(7)),
              KV(K_fetch_timestamp, List(<<Str(T_markup)>>)),
              KV(K_date, None),
              KV(K_version, Float(0, <<"1">>)) >>),
      Dict(<< KV(K_source_name, Str(T_markup)),
              KV(K_date, Str(T_script)),
              KV(K_version, Str(T_control)) >>),
      Dict(<< KV(K_cleaned_at, Str(D_stamp)) >>),
      Str(T_plain),
      List(<<Str(K_source_name)>>) }

FeedErrors ==
    List(<< Dict(<<KV(K_feed, Str(U_https)), KV(K_error, Str(T_markup))>>),
            Dict(<<KV(K_feed, Str(U_js)), KV(K_error, Str(Long(200, Excess)))>>),
            Dict(<<KV(K_error, Num(404)), KV(K_extra, Str(T_plain))>>),
            Str(T_plain),
            Dict(<<KV(K_feed, Num(1))>>) >>)

DataDefault == Dict(<<KV(K_articles, List(<<Dict(<<KV(K_title, Str(T_plain))>>)>>))>>)

DataChoices ==
    { DataDefault,
      EmptyDict,
      Dict(<< KV(K_date, Str(D_day)), KV(K_source_url, Str(U_https)),
              KV(K_total_scraped, Num(12)), KV(K_total_fetched, Num(7)),
              KV(K_total_relevant, Num(0)),
              KV(K_articles, List(<<>>)),
              KV(K_error, Str(T_markup)), KV(K_feed_errors, FeedErrors) >>),
      Dict(<< KV(K_source_url, Str(U_js)), KV(K_date, Str(LeadLong(20, Excess))) >>),
      Dict(<< KV(K_source_url, Str(<<" ">> \o U_http \o <<" ">>)),
              KV(K_error, Str(LeadLong(500, Excess))) >>),
      Dict(<< KV(K_source_url, Str(U_ftp)), KV(K_error, None) >>),
      Dict(<< KV(K_source_url, Dict(<<KV(K_markup, Str(U_js))>>)) >>),
      Dict(<< KV(K_articles, Dict(<<KV(K_title, Str(T_markup))>>)) >>),
      Dict(<< KV(K_articles, Str(T_markup)), KV(K_feed_errors, Str(T_markup)) >>),
      Dict(<< KV(K_feed_errors, Dict(<<KV(K_feed, Str(U_js))>>)),
              KV(K_articles, None) >>),
      Dict(<< KV(K_feed_errors, List(AsSeq([i \in 1..(50 + Excess) |->
                  Dict(<<KV(K_error, Num(i))>>)]))) >>),
      Dict(<< KV(K_total_scraped, Str(<<" ", "1", "2", " ">>)),
              KV(K_total_fetched, Num(0 - 5)),
              KV(K_total_relevant, BigNum(1, 12)) >>),
      Dict(<< KV(K_total_scraped, Float(3, <<"9">>)),
              KV(K_total_fetched, NaN),
              KV(K_total_relevant, None) >>),
      Dict(<< KV(K_total_scraped, Num(100001)),
              KV(K_total_fetched, Str(<<"-", "3">>)),
              KV(K_total_relevant, Str(<<"1", "e", "5">>)) >>),
      Dict(<< KV(K_total_scraped, Bool(TRUE)),
              KV(K_total_fetched, List(<<Num(1)>>)),
              KV(K_total_relevant, Str(Rep("9", 10 + Excess))) >>),
      Dict(<< KV(K_total_scraped, Num(100000)),
              KV(K_total_fetched, Float(0 - 2, <<"5">>)),
              KV(K_total_relevant, Str(T_plain)) >>),
      Dict(<< KV(K_total_fetched, Infinity) >>),
      Dict(<< KV(K_total_relevant, MinusInfinity), KV(K_date, Str(D_day)) >>),
      Dict(<< KV(K_extra, Dict(<<KV(K_markup, Str(T_markup)),
                                  KV(K_plain, Num(1)),
                                  KV(Long(200, Excess), Str(T_plain)),
                                  KV(T_padded, List(<<Str(T_image), BigNum(2, 15)>>))>>)),
              KV(K_markup, Str(T_markup)),
              KV(T_padded, Num(3)) >>),
      Dict(<< KV(K_extra, Nest("mix", 4, Str(T_plain))),
              KV(K_url, Str(U_dots)),
              KV(K_title, Str(T_script)) >>),
      Dict(<< KV(K_articles, List(<< Dict(<<KV(K_body, Str(T_plain))>>),
                                     Dict(<<KV(K_title, Str(T_plain))>>),
                                     Str(T_plain),
                                     Dict(<<KV(K_url, Str(U_https))>>),
                                     Dict(<<KV(K_source_url, Str(U_https)),
                                            KV(K_body, Str(T_plain))>>),
                                     EmptyDict >>)) >>),
      List(<<Dict(<<KV(K_title, Str(T_plain))>>)>>),
      Str(T_markup) }

Doc(meta, data) == Dict(<<KV(K_metadata, meta), KV(K_data, data)>>)

Docs ==
    { Dict(<<KV(K_data, Dict(<<KV(K_articles, List(<<a>>))>>))>>) : a \in ArticleChoices }
    \cup { Doc(m, DataDefault) : m \in MetaChoices }
    \cup { Doc(MetaDefault, d) : d \in DataChoices }
    \cup { Dict(<<KV(K_metadata, MetaDefault)>>),
           Dict(<<KV(K_extra, Str(T_markup))>>),
           EmptyDict, None, Bool(TRUE), Num(3), Float(1, <<"5">>),
           Str(T_plain), Str(<<"[">> \o K_metadata \o <<"]">>), Str(K_data),
           List(<<>>), List(<<Num(1), Str(K_data)>>), List(<<Str(K_metadata)>>),
           List(<<MetaDefault>>) }

----------------------------------------------------------------------------
(* The pipeline: raw JSON -> Reconstructor -> clean JSON -> Validator      *)

Init ==
    /\ raw_doc \in Docs
    /\ clean_doc = Unset
    /\ second_doc = Unset
    /\ verdict = NoVerdict
    /\ pc = "parsed"
    /\ arg = Unset /\ depth = 0 /\ ret = Unset
    /\ NoBatch
    /\ NoOthers

\* process_file: clean = reconstruct_fetcher_output(raw); an exception
\* fails the file.
Reconstruct ==
    /\ pc = "parsed"
    /\ \E now \in Clock : clean_doc' = reconstruct_fetcher_output(raw_doc, now)
    /\ pc' = IF clean_doc'.t = "raise" THEN "failed" ELSE "cleaned"
    /\ UNCHANGED <<raw_doc, second_doc, verdict, arg, depth, ret>>
    /\ UNCHANGED batch
    /\ UNCHANGED others

\* validate_file on the cleaned document
Validate ==
    /\ pc = "cleaned"
    /\ verdict = NoVerdict
    /\ verdict' = validate_file(clean_doc)
    /\ UNCHANGED <<raw_doc, clean_doc, second_doc, pc, arg, depth, ret>>
    /\ UNCHANGED batch
    /\ UNCHANGED others

\* The cleaner run again, on its own output
ReconstructAgain ==
    /\ pc = "cleaned"
    /\ second_doc = Unset
    /\ \E now \in Clock : second_doc' = reconstruct_fetcher_output(clean_doc, now)
    /\ UNCHANGED <<raw_doc, clean_doc, verdict, pc, arg, depth, ret>>
    /\ UNCHANGED batch
    /\ UNCHANGED others

Next == Reconstruct \/ Validate \/ ReconstructAgain

Spec == Init /\ [][Next]_vars

----------------------------------------------------------------------------
(* What the claims are stated in                                           *)

\* The section of a document under key, or an empty dict when it has none.
Section(doc, key) ==
    IF doc.t = "dict" /\ HasKey(doc, key) /\ Get(doc, key).t = "dict"
    THEN Get(doc, key) ELSE EmptyDict

\* A field of a section as a list of values, empty when it is no list.
ListField(section, key) ==
    IF HasKey(section, key) /\ Get(section, key).t = "list"
    THEN Get(section, key).items ELSE <<>>

\* A field of a dict as a str, empty when it is absent or no str.
TextOf(d, key) ==
    IF HasKey(d, key) /\ Get(d, key).t = "str" THEN Get(d, key).s ELSE <<>>

Cleaned == pc = "cleaned" /\ clean_doc.t = "dict"

CleanMeta == Section(clean_doc, K_metadata)

CleanData == Section(clean_doc, K_data)

RawData == Section(raw_doc, K_data)

CleanArticlesOut == ListField(CleanData, K_articles)

\* An input article that yields a non-empty title or a valid source_url.
PassesGate(a) ==
    /\ a.t = "dict"
    /\ \/ HasKey(a, K_title) /\ sanitize_string(PyStr(Get(a, K_title)), 500) # <<>>
       \/ HasKey(a, K_source_url) /\ sanitize_url(Get(a, K_source_url)) # None

\* The input articles that pass, in their order.
Survivors == SelectSeq(ListField(RawData, K_articles), PassesGate)

UrlKeys == {K_source_url, K_url, K_link}

ArticleWhitelist ==
    { K_title, K_source, K_source_url, K_url, K_link, K_body, K_body_text,
      K_content, K_summary, K_description, K_date, K_language, K_category,
      K_author, K_relevance_tags }

\* A document with the value of metadata.cleaned_at blanked.
WithoutCleanedAt(doc) ==
    IF doc.t = "dict" /\ HasKey(doc, K_metadata) /\ Get(doc, K_metadata).t = "dict"
    THEN DictSet(doc, K_metadata, DictSet(Get(doc, K_metadata), K_cleaned_at, None))
    ELSE doc

----------------------------------------------------------------------------
(* The claims on the pipeline                                              *)

\* C1: every envelope reconstruct_fetcher_output returns is accepted by the
\* Validator: check_json_structure and validate_value raise nothing on it.
C1_RoundTrip ==
    Cleaned /\ verdict # NoVerdict => verdict.ok

\* C2: reconstructing a reconstructed envelope changes nothing but
\* metadata.cleaned_at.
C2_Idempotent ==
    Cleaned /\ second_doc # Unset =>
        WithoutCleanedAt(second_doc) = WithoutCleanedAt(clean_doc)

\* C6: in every reconstructed envelope metadata.source_name and
\* metadata.fetch_timestamp have at most 50 characters, metadata.date and
\* metadata.version at most 20, every article title and source at most 500.
C6_LengthCaps ==
    Cleaned =>
        /\ Len(TextOf(CleanMeta, K_source_name)) <= 50
        /\ Len(TextOf(CleanMeta, K_fetch_timestamp)) <= 50
        /\ Len(TextOf(CleanMeta, K_date)) <= 20
        /\ Len(TextOf(CleanMeta, K_version)) <= 20
        /\ \A j \in 1..Len(CleanArticlesOut) :
              /\ Len(TextOf(CleanArticlesOut[j], K_title)) <= 500
              /\ Len(TextOf(CleanArticlesOut[j], K_source)) <= 500

\* C7, as stated: a reconstructed article carries at most one of the keys
\* source_url, url, link.
C7_AsStated ==
    Cleaned =>
        \A j \in 1..Len(CleanArticlesOut) :
            Cardinality(Keys(CleanArticlesOut[j]) \cap UrlKeys) <= 1

\* C7, amended: a reconstructed article carries each of the keys source_url,
\* url, link whose input value sanitize_url accepts, with the sanitized
\* value, and none of the others; when several are valid all are kept.
C7_UrlFieldsKept ==
    Cleaned /\ Len(CleanArticlesOut) = Len(Survivors) =>
        \A j \in 1..Len(CleanArticlesOut) : \A f \in UrlKeys :
            LET a_in  == Survivors[j]
                a_out == CleanArticlesOut[j]
                valid == HasKey(a_in, f) /\ sanitize_url(Get(a_in, f)) # None
            IN /\ HasKey(a_out, f) <=> valid
               /\ valid => Get(a_out, f) = Str(Strip(Get(a_in, f).s))

\* An article came out with source_url, url and link together.
C7_Witness ==
    /\ Cleaned
    /\ \E j \in 1..Len(CleanArticlesOut) : UrlKeys \subseteq Keys(CleanArticlesOut[j])

\* C8: the articles of the envelope are those input articles that yield a
\* non-empty title or a valid source_url, and no others; each carries a
\* non-empty title or a source_url, none is an empty object, and an input
\* with only a title comes out as just that title.
C8_ArticleGating ==
    Cleaned /\ HasKey(RawData, K_articles) /\ Get(RawData, K_articles).t = "list" =>
        /\ HasKey(CleanData, K_articles)
        /\ Len(CleanArticlesOut) = Len(Survivors)
        /\ \A j \in 1..Len(CleanArticlesOut) :
              LET a_out == CleanArticlesOut[j]
              IN /\ a_out.t = "dict"
                 /\ a_out # EmptyDict
                 /\ TextOf(a_out, K_title) # <<>> \/ HasKey(a_out, K_source_url)
                 /\ HasKey(a_out, K_title) = HasKey(
                        RequiredStrings(Survivors[j], <<K_title>>, 1, EmptyDict), K_title)
        /\ \A j \in 1..Min2(Len(CleanArticlesOut), Len(Survivors)) :
              Keys(Survivors[j]) = {K_title} /\ Get(Survivors[j], K_title).t = "str"
                  => Keys(CleanArticlesOut[j]) = {K_title}

\* Of several input articles some were dropped (one held only a body) and
\* some came out.
C8_Witness ==
    /\ Cleaned
    /\ Len(CleanArticlesOut) > 0
    /\ Len(CleanArticlesOut) < Len(ListField(RawData, K_articles))
    /\ \E i \in 1..Len(ListField(RawData, K_articles)) :
          LET a == ListField(RawData, K_articles)[i]
          IN a.t = "dict" /\ Keys(a) = {K_body}

\* C9: the keys of a reconstructed article are among the fifteen of the
\* whitelist, and the generic reconstructor is applied to none of its
\* fields: each value is a str, the tags a list of str, whatever the input
\* held.
C9_ArticleWhitelist ==
    Cleaned =>
        \A j \in 1..Len(CleanArticlesOut) :
            LET a_out == CleanArticlesOut[j]
            IN /\ Keys(a_out) \subseteq ArticleWhitelist
               /\ \A i \in 1..Len(a_out.kv) :
                     IF a_out.kv[i].k = K_relevance_tags
                     THEN /\ a_out.kv[i].v.t = "list"
                          /\ \A x \in 1..Len(a_out.kv[i].v.items) :
                                a_out.kv[i].v.items[x].t = "str"
                     ELSE a_out.kv[i].v.t = "str"

\* An article whose input held a key outside the whitelist and an object as
\* its body came out without the key and with a str as its body.
C9_Witness ==
    /\ Cleaned
    /\ Len(CleanArticlesOut) = 1 /\ Len(Survivors) = 1
    /\ HasKey(Survivors[1], K_extra)
    /\ Get(Survivors[1], K_body).t = "dict"
    /\ ~HasKey(CleanArticlesOut[1], K_extra)
    /\ Get(CleanArticlesOut[1], K_body).t = "str"

\* C10: the generic reconstructor is applied only to the keys of the input
\* data object that are not explicitly handled: a data.source_url that
\* sanitize_url rejects, and an articles or feed_errors value that is no
\* array, do not appear in the output.
C10_GenericOnlyUnhandled ==
    Cleaned /\ RawData # EmptyDict =>
        /\ HasKey(RawData, K_source_url) /\ sanitize_url(Get(RawData, K_source_url)) = None
              => ~HasKey(CleanData, K_source_url)
        /\ HasKey(RawData, K_articles) /\ Get(RawData, K_articles).t # "list"
              => ~HasKey(CleanData, K_articles)
        /\ HasKey(RawData, K_feed_errors) /\ Get(RawData, K_feed_errors).t # "list"
              => ~HasKey(CleanData, K_feed_errors)

----------------------------------------------------------------------------
(* Two documents that differ in metadata the Reconstructor does not read   *)

\* d without the key k
DictDel(d, k) == Dict(SelectSeq(d.kv, LAMBDA p : p.k # k))

\* What an input may hold under metadata.cleaned_at.
Spoofs ==
    { Str(D_stamp), Str(D_day), Str(T_script), Str(T_empty), Num(1), None,
      Dict(<<KV(K_cleaned_at, Str(D_stamp))>>) }

\* The metadata objects that differ from meta in cleaned_at or in another
\* key that is none of source_name, fetch_timestamp, date, version.
MetaTwins(meta) ==
    { DictSet(meta, K_cleaned_at, v) : v \in Spoofs }
    \cup { DictDel(meta, K_cleaned_at),
           DictDel(meta, K_extra),
           DictSet(meta, K_extra, Str(T_markup)),
           DictSet(DictSet(meta, K_markup, Num(2)), K_cleaned_at, Str(D_stamp)),
           Dict(<<KV(K_cleaned_at, Str(D_stamp))>> \o DictDel(meta, K_cleaned_at).kv) }

TwinData == { DataDefault, EmptyDict, Str(T_markup) }

\* The pairs (document, twin).
Twins ==
    UNION { { <<Doc(m, d), Doc(mt, d)>> : mt \in MetaTwins(m), d \in TwinData } :
              m \in { x \in MetaChoices : x.t = "dict" } }

InitTwins ==
    /\ \E pair \in Twins : raw_doc = pair[1] /\ arg = pair[2]
    /\ clean_doc = Unset /\ ret = Unset
    /\ second_doc = Unset /\ verdict = NoVerdict
    /\ pc = "parsed" /\ depth = 0
    /\ NoBatch
    /\ NoOthers

\* reconstruct_fetcher_output on the document and on its twin, at one
\* reading of the clock.
ReconstructTwins ==
    /\ pc = "parsed"
    /\ \E now \in Clock :
          /\ clean_doc' = reconstruct_fetcher_output(raw_doc, now)
          /\ ret' = reconstruct_fetcher_output(arg, now)
    /\ pc' = "twins"
    /\ UNCHANGED <<raw_doc, arg, second_doc, verdict, depth>>
    /\ UNCHANGED batch
    /\ UNCHANGED others

NextTwins == ReconstructTwins

SpecTwins == InitTwins /\ [][NextTwins]_vars

\* C11: two documents that differ only in metadata.cleaned_at, or in a
\* metadata key that is none of source_name, fetch_timestamp, date, version,
\* reconstruct at one clock reading to the same envelope; its metadata has
\* exactly the keys source_name, fetch_timestamp, date, version, cleaned_at,
\* and cleaned_at is the clock's reading, not the input's value.
C11_CleanedAtFresh ==
    pc = "twins" =>
        /\ clean_doc = ret
        /\ clean_doc.t = "dict" /\ HasKey(clean_doc, K_metadata)
        /\ LET meta == Get(clean_doc, K_metadata)
           IN /\ Len(meta.kv) = 5
              /\ Keys(meta) = { K_source_name, K_fetch_timestamp, K_date,
                                K_version, K_cleaned_at }
              /\ Get(meta, K_cleaned_at).t = "str"
              /\ Get(meta, K_cleaned_at).s \in Clock

\* Of two documents, one bringing a cleaned_at of its own and the other a
\* different one or none, the envelopes came out the same.
C11_Witness ==
    /\ pc = "twins"
    /\ raw_doc # arg
    /\ HasKey(Section(arg, K_metadata), K_cleaned_at)
    /\ GetOr(Section(raw_doc, K_metadata), K_cleaned_at, None)
          # Get(Section(arg, K_metadata), K_cleaned_at)
    /\ clean_doc = ret
    /\ Get(Section(ret, K_metadata), K_cleaned_at).s \in Clock

----------------------------------------------------------------------------
(* The claims on the counters and on exceptions                            *)

CounterKeys == { K_total_scraped, K_total_fetched, K_total_relevant }

\* C12: a counter of a reconstructed envelope is an int in 0..100000,
\* whatever the input held: 0 for a negative number, 100000 for a larger
\* one, 0 for a value int() does not convert.
C12_CounterClamp ==
    Cleaned =>
        \A f \in CounterKeys :
            HasKey(CleanData, f) =>
                LET x == Get(RawData, f)
                    y == Get(CleanData, f)
                IN /\ HasKey(RawData, f)
                   /\ y.t = "int" /\ y.e = 0
                   /\ 0 <= y.n /\ y.n <= 100000
                   /\ x.t = "int" /\ x.n < 0 => y.n = 0
                   /\ x.t = "int" /\ x.e = 0 /\ x.n \in 0..100000 => y.n = x.n
                   /\ x.t = "int" /\ (x.n > 100000 \/ (x.n > 0 /\ x.e >= 5))
                         => y.n = 100000
                   /\ x.t \in {"null", "list", "dict"} \/ x = NaN => y.n = 0
                   /\ x.t = "str" /\ (\E i \in 1..Len(x.s) : IsLetter(x.s[i])) => y.n = 0

\* A negative counter came out as 0 and one past the range as 100000.
C12_Witness ==
    /\ Cleaned
    /\ \E f \in CounterKeys :
          /\ HasKey(RawData, f) /\ Get(RawData, f).t = "int" /\ Get(RawData, f).n < 0
          /\ Get(CleanData, f) = Num(0)
    /\ \E f \in CounterKeys :
          /\ HasKey(RawData, f) /\ Get(RawData, f).t = "int" /\ Get(RawData, f).e > 0
          /\ Get(CleanData, f) = Num(100000)

\* C13: reconstruct_fetcher_output returns an envelope and raises nothing,
\* whatever the root and the fields of the parsed document are.
C13_NeverRaises ==
    pc # "parsed" => pc = "cleaned" /\ clean_doc.t = "dict"

----------------------------------------------------------------------------
(* scripts/cdr_cleaner.py: process_file, process_directory, main           *)

MAX_FILE_SIZE_BYTES == 50 * 1024 * 1024

\* A file under the input root: its path relative to the root, its size in
\* bytes, whether json.load parses it and then the document it holds, and
\* whether its mirrored path under the output root can be written.
File(rel, size, parses, doc, writable) ==
    [rel |-> rel, size |-> size, parses |-> parses, doc |-> doc, writable |-> writable]

\* process_file(input_path, output_path), at the clock reading now: whether
\* it returns True, and the document it wrote.  A file too large, an
\* invalid JSON text and any exception make it return False.
process_file(f, now) ==
    LET clean == reconstruct_fetcher_output(f.doc, now)
    IN IF f.size > MAX_FILE_SIZE_BYTES THEN [ok |-> FALSE, out |-> Unset]
       ELSE IF ~f.parses THEN [ok |-> FALSE, out |-> Unset]
       ELSE IF clean.t = "raise" THEN [ok |-> FALSE, out |-> Unset]
       ELSE IF ~f.writable THEN [ok |-> FALSE, out |-> Unset]
       ELSE [ok |-> TRUE, out |-> clean]

\* The counting, were a failed file to go uncounted.
Tally_Lossy(p, f, ok) == IF ok THEN <<p + 1, f>> ELSE <<p, f>>

\* if process_file(...): passed += 1  else: failed += 1
Tally(p, f, ok) == IF ok THEN <<p + 1, f>> ELSE <<p, f + 1>>

\* The exit status, were it always 0.
ExitStatus_Zero(f) == 0

\* return 0 if failed == 0 else 1
ExitStatus(f) == IF f = 0 THEN 0 ELSE 1

\* How many files a listing holds at most.
MaxFiles == 3

Paths ==
    << <<"a", ".", "j", "s", "o", "n">>,
       <<"s", "u", "b", "/", "b", ".", "j", "s", "o", "n">>,
       <<"s", "u", "b", "/", "x", "/", "c", ".", "j", "s", "o", "n">>,
       <<"d", ".", "j", "s", "o", "n">>,
       <<"e", ".", "j", "s", "o", "n">> >>

\* What a file may be, but for its path.
FileKinds ==
    { File(<<>>, 120, TRUE, Doc(MetaDefault, DataDefault), TRUE),
      File(<<>>, MAX_FILE_SIZE_BYTES, TRUE, EmptyDict, TRUE),
      File(<<>>, MAX_FILE_SIZE_BYTES + 1, TRUE, Doc(MetaDefault, DataDefault), TRUE),
      File(<<>>, 17, FALSE, Unset, TRUE),
      File(<<>>, 40, TRUE, Dict(<<KV(K_data, Dict(<<KV(K_total_fetched, Infinity)>>))>>), TRUE),
      File(<<>>, 1, TRUE, Num(3), TRUE),
      File(<<>>, 120, TRUE, Doc(MetaDefault, DataDefault), FALSE) }

\* The listings: up to MaxFiles files at distinct paths, and the directory
\* of three valid files and one of invalid JSON.
Listings ==
    UNION { { [i \in 1..n |-> [kinds[i] EXCEPT !.rel = Paths[i]]] :
                kinds \in [1..n -> FileKinds] } : n \in 0..MaxFiles }
    \cup { << File(Paths[1], 120, TRUE, Doc(MetaDefault, DataDefault), TRUE),
              File(Paths[2], 17, FALSE, Unset, TRUE),
              File(Paths[3], 120, TRUE, EmptyDict, TRUE),
              File(Paths[4], 120, TRUE, Doc(MetaDefault, EmptyDict), TRUE) >> }

InitBatch ==
    /\ argv \in [n : 1..4, exists : BOOLEAN]
    /\ files \in Listings
    /\ (argv.n < 3 \/ ~argv.exists) => files = <<>>
    /\ cursor = 0 /\ passed = 0 /\ failed = 0
    /\ written = {} /\ log = <<>> /\ status = 0 - 1
    /\ pc = "main"
    /\ raw_doc = Unset /\ clean_doc = Unset /\ second_doc = Unset
    /\ verdict = NoVerdict
    /\ arg = Unset /\ depth = 0 /\ ret = Unset
    /\ NoOthers

pipeline == <<raw_doc, clean_doc, second_doc, verdict, arg, depth, ret>>

\* main, up to the call of process_directory: too few arguments or a
\* missing input directory end it with status 1.
MainStart ==
    /\ pc = "main"
    /\ IF argv.n < 3 \/ ~argv.exists
       THEN status' = 1 /\ pc' = "exit" /\ cursor' = cursor
       ELSE status' = status /\ pc' = "loop" /\ cursor' = 1
    /\ UNCHANGED <<argv, files, passed, failed, written, log>>
    /\ UNCHANGED pipeline
    /\ UNCHANGED others

\* One turn of `for input_path in json_files`.
ProcessNext ==
    /\ pc = "loop"
    /\ cursor <= Len(files)
    /\ \E now \in Clock : \E r \in {process_file(files[cursor], now)} :
          /\ passed' = Tally(passed, failed, r.ok)[1]
          /\ failed' = Tally(passed, failed, r.ok)[2]
          /\ written' = IF r.ok
                        THEN written \cup {[rel |-> files[cursor].rel, doc |-> r.out]}
                        ELSE written
          /\ log' = Append(log, [rel |-> files[cursor].rel, ok |-> r.ok])
    /\ cursor' = cursor + 1
    /\ UNCHANGED <<argv, files, status, pc>>
    /\ UNCHANGED pipeline
    /\ UNCHANGED others

\* process_directory returns (passed, failed) and main its exit status.
MainReturn ==
    /\ pc = "loop"
    /\ cursor > Len(files)
    /\ status' = ExitStatus(failed)
    /\ pc' = "exit"
    /\ UNCHANGED <<argv, files, cursor, passed, failed, written, log>>
    /\ UNCHANGED pipeline
    /\ UNCHANGED others

NextBatch == MainStart \/ ProcessNext \/ MainReturn

SpecBatch == InitBatch /\ [][NextBatch]_vars

\* A run of main that reached process_directory.
BatchRan == argv.n >= 3 /\ argv.exists

\* The file is within the size limit, parses, reconstructs without an
\* exception and has a writable output path.
Cleanable(f) ==
    /\ f.size <= 50 * 1024 * 1024
    /\ f.parses
    /\ \A now \in Clock : reconstruct_fetcher_output(f.doc, now).t # "raise"
    /\ f.writable

\* C14: process_directory attempts every listed file once, in the order of
\* the listing, whatever became of the files before; when it returns, passed
\* counts the files whose clean document was written at the mirrored
\* relative path, failed counts the others, and they add up to the number
\* of files.
C14_BatchPartialFailure ==
    /\ pc = "loop" => /\ Len(log) = cursor - 1
                      /\ passed + failed = cursor - 1
    /\ pc = "exit" /\ BatchRan =>
          /\ Len(log) = Len(files)
          /\ \A i \in 1..Len(files) :
                /\ log[i].rel = files[i].rel
                /\ log[i].ok = Cleanable(files[i])
          /\ passed = Cardinality({ i \in 1..Len(files) : Cleanable(files[i]) })
          /\ failed = Cardinality({ i \in 1..Len(files) : ~Cleanable(files[i]) })
          /\ passed + failed = Len(files)
          /\ Cardinality(written) = passed
          /\ { w.rel : w \in written }
                = { files[i].rel : i \in { j \in 1..Len(files) : Cleanable(files[j]) } }
          /\ \A w \in written : \E i \in 1..Len(files) : \E now \in Clock :
                /\ w.rel = files[i].rel
                /\ w.doc = reconstruct_fetcher_output(files[i].doc, now)

\* The directory of three valid files and one of invalid JSON: 3 passed,
\* 1 failed, the three outputs written, a non-zero exit status.
C14_Witness ==
    /\ pc = "exit" /\ BatchRan
    /\ Len(files) = 4
    /\ passed = 3 /\ failed = 1
    /\ ~log[2].ok /\ log[3].ok /\ log[4].ok
    /\ Cardinality(written) = 3
    /\ status = 1

\* C15, as stated: the exit status of main is non-zero exactly when
\* failed > 0.
C15_AsStated ==
    pc = "exit" => (status # 0 <=> failed > 0)

\* C15, amended: a run of main that reaches process_directory exits with a
\* non-zero status exactly when failed > 0, and with 0 when there is no
\* JSON file; a run with fewer than two arguments or with a missing input
\* directory exits with 1 and processes no file.
C15_ExitStatus ==
    pc = "exit" =>
        IF BatchRan
        THEN /\ status \in {0, 1}
             /\ status # 0 <=> failed > 0
             /\ files = <<>> => status = 0
        ELSE /\ status = 1
             /\ log = <<>> /\ passed = 0 /\ failed = 0 /\ written = {}

\* A batch ended with files cleaned, a file failed and the status 1.
C15_Witness ==
    /\ pc = "exit" /\ BatchRan
    /\ passed > 0 /\ failed > 0
    /\ status = 1

----------------------------------------------------------------------------
(* The Validator run on documents of any origin                            *)

V_onedot == <<"h", "t", "t", "p", "s", ":", "/", "/", "b", ".", "c", "a", "/", "a", "/", ".", ".", "/", "c">>

V_proc == <<"/", "p", "r", "o", "c", "/", "s", "e", "l", "f", "/", "e", "n", "v", "i", "r", "o", "n">>

V_vbs_query == <<"h", "t", "t", "p", "s", ":", "/", "/", "b", ".", "c", "a", "/", "?", "n", "e", "x", "t", "=", "v", "b", "s", "c", "r", "i", "p", "t", ":", "m", "s", "g", "b", "o", "x">>

V_vbs == <<"v", "b", "s", "c", "r", "i", "p", "t", ":", "/", "/", "x">>

V_vbs_plain == <<"v", "b", "s", "c", "r", "i", "p", "t", ":", "x">>

V_data == <<"x", ":", "/", "/", "d", "a", "t", "a", ":", "t", "e", "x", "t", "/", "h", "t", "m", "l", ",", "h", "i">>

V_file == <<"f", "i", "l", "e", ":", "/", "/", "/", "e", "t", "c", "/", "p", "a", "s", "s", "w", "d">>

V_up == <<".", ".", "/", "x">>

K_URL == <<"U", "R", "L">>

K_urls == <<"u", "r", "l", "s">>

K_href == <<"h", "r", "e", "f">>

K_thumbnail == <<"t", "h", "u", "m", "b", "n", "a", "i", "l">>

K_image_url == <<"i", "m", "a", "g", "e", "_", "u", "r", "l">>

K_caption == <<"c", "a", "p", "t", "i", "o", "n">>

\* A step of a field path: a key of an object, or an index of an array.
Key(k) == [key |-> k, index |-> 0 - 1]

Index(i) == [key |-> <<>>, index |-> i]

\* The document that holds leaf at the end of path and nothing else but
\* the ints that fill the arrays before it.
RECURSIVE At(_, _)
At(path, leaf) ==
    IF path = <<>> THEN leaf
    ELSE LET inner == At(Tail(path), leaf)
             h     == Head(path)
         IN IF h.index < 0 THEN Dict(<<KV(h.key, inner)>>)
            ELSE List(AsSeq([j \in 1..(h.index + 1) |->
                                 IF j = h.index + 1 THEN inner ELSE Num(j)]))

LeafPaths ==
    { <<Key(K_url)>>,
      <<Key(K_title)>>,
      <<Key(K_URL)>>,
      <<Key(K_urls)>>,
      <<Key(K_link), Key(K_title)>>,
      <<Key(K_url), Index(0)>>,
      <<Key(K_data), Key(K_articles), Index(1), Key(K_source_url)>>,
      <<Key(K_data), Key(K_articles), Index(0), Key(K_body)>>,
      <<Key(K_data), Key(K_thumbnail)>>,
      <<Key(K_image_url), Key(K_caption)>>,
      <<Key(K_extra), Key(K_href)>> }

LeafTexts ==
    { T_plain, T_script, U_https, U_http, U_ftp, U_dots, U_vbs, U_query_js,
      U_relative, V_onedot, V_proc, V_vbs_query, V_vbs, V_vbs_plain, V_data,
      V_file, V_up }
    \cup { UrlOfLength(MAX_URL_LENGTH - 1 + k) : k \in 0..Excess }

LeafDocs == { At(p, Str(s)) : p \in LeafPaths, s \in LeafTexts }

\* Roots and metadata sections of every shape.
StructureDocs ==
    { None, Bool(FALSE), Num(1), Str(T_plain), List(<<>>), List(<<EmptyDict>>),
      List(<<Str(T_script)>>), EmptyDict,
      Dict(<<KV(K_data, EmptyDict)>>),
      Dict(<<KV(K_extra, Num(1))>>),
      Dict(<<KV(K_data, Dict(<<KV(K_metadata, Str(T_plain))>>))>>) }
    \cup { Dict(<<KV(K_metadata, m)>>) :
             m \in { None, Str(K_date), List(<<Str(K_date)>>), Num(0) } }
    \cup { Doc(Dict(AsSeq([i \in 1..Len(ks) |-> KV(ks[i], Str(T_plain))])), d) :
             ks \in { <<>>, <<K_version>>, <<K_extra, K_cleaned_at>>,
                      <<K_source_name>>, <<K_fetch_timestamp>>, <<K_date>>,
                      <<K_version, K_date>>,
                      <<K_source_name, K_fetch_timestamp>>,
                      <<K_source_name, K_fetch_timestamp, K_date, K_version>> },
             d \in { EmptyDict, Str(T_plain) } }

\* Documents with more than one leaf, and more than one violation.
ManyDocs ==
    { Dict(<<KV(K_title, Str(T_script)), KV(K_url, Str(V_onedot))>>),
      Dict(<<KV(K_url, Str(V_onedot)), KV(K_title, Str(T_script))>>),
      Dict(<<KV(K_data, Dict(<<KV(K_articles, List(<<
                 Dict(<<KV(K_title, Str(T_plain)),
                        KV(K_url, Str(UrlOfLength(MAX_URL_LENGTH + 1)))>>),
                 Dict(<<KV(K_title, Str(T_script))>>) >>))>>)),
             KV(K_extra, Str(V_vbs))>>),
      Dict(<<KV(K_extra, List(<<Str(T_plain), Str(V_vbs), Str(T_script)>>)),
             KV(K_url, Str(V_onedot))>>),
      Dict(<<KV(K_extra, Dict(<<KV(K_plain, Dict(<<KV(K_body, Str(V_vbs))>>))>>)),
             KV(K_title, Str(T_script))>>),
      Dict(<<KV(K_title, Str(T_script)), KV(K_metadata, Dict(<<KV(K_extra, Num(1))>>))>>),
      Dict(<<KV(K_url, Str(V_onedot)), KV(K_metadata, Str(T_plain))>>),
      Dict(<<KV(K_metadata, Dict(<<KV(K_source_name, Str(T_image)),
                                   KV(K_date, Str(D_script))>>)),
             KV(K_data, Dict(<<KV(K_url, Str(V_onedot))>>))>>),
      Dict(<<KV(K_title, Str(T_plain)), KV(K_url, Str(U_https)),
             KV(K_extra, List(<<Num(1), None, Str(U_ftp), Bool(TRUE)>>))>>),
      Dict(<<KV(K_title, Str(T_plain)), KV(K_body, Str(T_eval)),
             KV(K_link, Str(V_onedot))>>) }
    \cup { Dict(<<KV(K_body, Str(Long(MAX_STRING_LENGTH_V - 1, k))),
                  KV(K_title, Str(T_script))>>) : k \in 0..Excess }

\* A key with a dot in it, and one that ends like an index.
K_dotted == K_extra \o <<".">> \o K_body

K_indexed == K_extra \o <<"[", "0", "]">>

\* Documents whose keys are empty or hold the separators of a path.
PathDocs ==
    { Dict(<<KV(K_dotted, Str(T_plain)),
             KV(K_extra, Dict(<<KV(K_body, Str(T_script))>>))>>),
      Dict(<<KV(K_extra, List(<<Str(T_script)>>)), KV(K_indexed, Str(T_plain))>>),
      Dict(<<KV(<<>>, Dict(<<KV(K_title, Str(T_script))>>)),
             KV(K_title, Str(T_plain))>>),
      Dict(<<KV(K_dotted, Str(T_plain)), KV(K_indexed, Str(T_script)),
             KV(<<>>, Str(T_plain))>>) }

ValidatorDocs == LeafDocs \cup StructureDocs \cup ManyDocs \cup PathDocs

InitValidate ==
    /\ clean_doc \in ValidatorDocs
    /\ verdict = NoVerdict
    /\ pc = "loaded"
    /\ raw_doc = Unset /\ second_doc = Unset
    /\ arg = Unset /\ depth = 0 /\ ret = Unset
    /\ NoBatch
    /\ NoOthers

\* validate_file: check_json_structure(data)
CheckStructure ==
    /\ pc = "loaded"
    /\ verdict' = check_json_structure(clean_doc)
    /\ pc' = IF verdict'.ok THEN "structure_ok" ELSE "structure_failed"
    /\ UNCHANGED <<raw_doc, clean_doc, second_doc, arg, depth, ret>>
    /\ UNCHANGED batch
    /\ UNCHANGED others

\* validate_file: validate_value(data)
WalkValues ==
    /\ pc = "structure_ok"
    /\ verdict' = validate_value(clean_doc, <<>>)
    /\ pc' = IF verdict'.ok THEN "walk_ok" ELSE "walk_failed"
    /\ UNCHANGED <<raw_doc, clean_doc, second_doc, arg, depth, ret>>
    /\ UNCHANGED batch
    /\ UNCHANGED others

NextValidate == CheckStructure \/ WalkValues

SpecValidate == InitValidate /\ [][NextValidate]_vars

----------------------------------------------------------------------------
(* The claims on the Validator                                             *)

\* A document that is one chain of single-key objects and arrays down to a
\* str: the steps of the chain, keys lowercased and indices as digits, and
\* the str at its end.
RECURSIVE ChainSegments(_)
ChainSegments(v) ==
    CASE v.t = "dict" /\ Len(v.kv) = 1 ->
            <<Lower(v.kv[1].k)>> \o ChainSegments(v.kv[1].v)
      [] v.t = "list" /\ v.items # <<>> ->
            <<NatStr(Len(v.items) - 1)>> \o ChainSegments(v.items[Len(v.items)])
      [] OTHER -> <<>>

RECURSIVE ChainLeaf(_)
ChainLeaf(v) ==
    CASE v.t = "dict" /\ Len(v.kv) = 1 -> ChainLeaf(v.kv[1].v)
      [] v.t = "list" /\ v.items # <<>> -> ChainLeaf(v.items[Len(v.items)])
      [] OTHER -> v

\* The walk has run on a document of one str leaf.
LeafWalked ==
    /\ pc \in {"walk_ok", "walk_failed"}
    /\ ChainLeaf(clean_doc).t = "str"
    /\ ChainSegments(clean_doc) # <<>>

Leaf == ChainLeaf(clean_doc).s

Segments == ChainSegments(clean_doc)

UrlBearing ==
    { <<"u", "r", "l">>, <<"s", "o", "u", "r", "c", "e", "_", "u", "r", "l">>, <<"l", "i", "n", "k">>, <<"h", "r", "e", "f">>, <<"i", "m", "a", "g", "e", "_", "u", "r", "l">>, <<"t", "h", "u", "m", "b", "n", "a", "i", "l">> }

\* The errors only check_url raises.
UrlErrors == {"UrlTooLong", "PathTraversal"}

\* C16: check_json_structure raises when the root is no object, and when
\* the root has a metadata object with none of the keys source_name,
\* fetch_timestamp, date; it accepts every object without a metadata key
\* and every one whose metadata object has at least one of the three.
C16_StructuralCheck ==
    pc \in {"structure_ok", "structure_failed"} =>
        LET meta     == Get(clean_doc, K_metadata)
            expected == {K_source_name, K_fetch_timestamp, K_date}
        IN /\ clean_doc.t # "dict"
                 => pc = "structure_failed" /\ verdict.kind = "RootNotObject"
           /\ clean_doc.t = "dict" /\ ~HasKey(clean_doc, K_metadata)
                 => pc = "structure_ok" /\ verdict.ok
           /\ clean_doc.t = "dict" /\ HasKey(clean_doc, K_metadata) /\ meta.t = "dict"
                 => IF Keys(meta) \cap expected = {}
                    THEN pc = "structure_failed" /\ verdict.kind = "MetadataMissingFields"
                    ELSE pc = "structure_ok" /\ verdict.ok

\* A metadata object with one of the three keys was accepted.
C16_Witness ==
    /\ pc = "structure_ok"
    /\ HasKey(clean_doc, K_metadata)
    /\ Keys(Get(clean_doc, K_metadata)) = {K_fetch_timestamp}

DangerousSchemes ==
    { <<"j", "a", "v", "a", "s", "c", "r", "i", "p", "t", ":">>, <<"d", "a", "t", "a", ":", "t", "e", "x", "t", "/", "h", "t", "m", "l">>, <<"f", "i", "l", "e", ":", "/", "/">>, <<"v", "b", "s", "c", "r", "i", "p", "t", ":">> }

\* C18: a str leaf that holds "://" and whose lowercased form holds
\* javascript:, data:text/html, file:// or vbscript: makes validate_value
\* raise, whatever its field name and also when it sits in a URL-bearing
\* field and begins with http:// or https://.
C18_SchemeScan ==
    (/\ LeafWalked
     /\ Contains(Leaf, <<":", "/", "/">>)
     /\ \E w \in DangerousSchemes : Contains(Lower(Leaf), w))
    => pc = "walk_failed"

\* C19: a str leaf that holds a path-traversal sequence or begins with
\* /etc/ or /proc/ makes validate_value raise, whatever its field name and
\* whether or not it begins with http:// or https://.
C19_PathTraversal ==
    (/\ LeafWalked
     /\ \/ Contains(Leaf, <<".", ".", "/">>)
        \/ StartsWith(Leaf, <<"/", "e", "t", "c", "/">>)
        \/ StartsWith(Leaf, <<"/", "p", "r", "o", "c", "/">>))
    => pc = "walk_failed"

\* The str leaves of a value with their field paths, in the order of a
\* depth-first walk: keys in the order of the object, elements in the
\* order of the array.
RECURSIVE StringLeaves(_, _), PairLeaves(_, _, _), ItemLeaves(_, _, _)
StringLeaves(v, path) ==
    CASE v.t = "str"  -> <<[path |-> path, s |-> v.s]>>
      [] v.t = "dict" -> PairLeaves(v.kv, 1, path)
      [] v.t = "list" -> ItemLeaves(v.items, 1, path)
      [] OTHER        -> <<>>

PairLeaves(kv, i, path) ==
    IF i > Len(kv) THEN <<>>
    ELSE StringLeaves(kv[i].v, IF path = <<>> THEN kv[i].k ELSE path \o <<".">> \o kv[i].k)
         \o PairLeaves(kv, i + 1, path)

ItemLeaves(items, i, path) ==
    IF i > Len(items) THEN <<>>
    ELSE StringLeaves(items[i], path \o <<"[">> \o NatStr(i - 1) \o <<"]">>)
         \o ItemLeaves(items, i + 1, path)

\* What the checks of one leaf answer.
LeafVerdict(leaf) == ValidateString(leaf.s, leaf.path)

\* The indices of the leaves of the document that violate a check.
Violating ==
    { i \in 1..Len(StringLeaves(clean_doc, <<>>)) :
        ~LeafVerdict(StringLeaves(clean_doc, <<>>)[i]).ok }

FirstViolating == CHOOSE i \in Violating : \A j \in Violating : i <= j

\* The str leaves the walk meets before the metadata key of the root.
BeforeMetadata ==
    LET k == CHOOSE i \in 1..Len(clean_doc.kv) : clean_doc.kv[i].k = K_metadata
    IN StringLeaves(Dict(SubSeq(clean_doc.kv, 1, k - 1)), <<>>)

\* C20, as stated: the error of a rejected document is the one of the first
\* violating location of the depth-first walk, the root being the first
\* location and the metadata object the location of its key; no violation
\* at a later location is reported in its place.
C20_AsStated ==
    /\ pc = "walk_failed" =>
          verdict = LeafVerdict(StringLeaves(clean_doc, <<>>)[FirstViolating])
    /\ pc = "structure_failed" /\ verdict.kind # "RootNotObject" =>
          \A i \in 1..Len(BeforeMetadata) : LeafVerdict(BeforeMetadata[i]).ok

\* C20, amended: a violation of the envelope structure is reported before
\* any value is inspected; when the structure is accepted, the error is the
\* one of the first violating str of the depth-first walk, and the document
\* is accepted when no str violates.
C20_FirstViolation ==
    /\ pc = "structure_failed" =>
          verdict.kind \in {"RootNotObject", "MetadataNotObject", "MetadataMissingFields"}
    /\ pc = "walk_failed" =>
          /\ Violating # {}
          /\ verdict = LeafVerdict(StringLeaves(clean_doc, <<>>)[FirstViolating])
    /\ pc = "walk_ok" => Violating = {} /\ verdict.ok

\* A document with violations of two kinds at two places was rejected with
\* the error of the first.
C20_Witness ==
    /\ pc = "walk_failed"
    /\ Cardinality(Violating) >= 2
    /\ \E i \in Violating :
          LeafVerdict(StringLeaves(clean_doc, <<>>)[i]).kind # verdict.kind
    /\ verdict = LeafVerdict(StringLeaves(clean_doc, <<>>)[FirstViolating])

----------------------------------------------------------------------------
(* scripts/validate_output.py: validate_file on a path, validate_directory *)
(* and main                                                                *)

MAX_FILE_SIZE_MB == 50

\* A file the Validator is pointed at: its name, its size in bytes, whether
\* open() succeeds, what json.load does with its text ("ok" or the
\* exception it raises) and the document it returns.
VFile(name, size, opens, parse, doc) ==
    [name |-> name, size |-> size, opens |-> opens, parse |-> parse, doc |-> doc]

\* How a call ended: exc is "" on a return, and else the class of the
\* exception raised ("ValidationError", or one outside the taxonomy).
Returned == [exc |-> "", kind |-> ""]

Raises(exc, kind) == [exc |-> exc, kind |-> kind]

\* check_file_size(path): size_mb > MAX_FILE_SIZE_MB
FileTooLarge(f) == f.size > MAX_FILE_SIZE_MB * 1024 * 1024

\* validate_file(path): the size check, open and json.load with their two
\* except clauses, then the structure check and the walk.
validate_file_path(f) ==
    IF FileTooLarge(f) THEN Raises("ValidationError", "FileTooLarge")
    ELSE IF ~f.opens THEN Raises("PermissionError", "")
    ELSE IF f.parse = "JSONDecodeError" THEN Raises("ValidationError", "InvalidJSON")
    ELSE IF f.parse = "UnicodeDecodeError"
         THEN Raises("ValidationError", "InvalidEncoding")
    ELSE IF f.parse # "ok" THEN Raises(f.parse, "")
    ELSE IF validate_file(f.doc).ok THEN Returned
    ELSE Raises("ValidationError", validate_file(f.doc).kind)

\* The except clauses of the loop of validate_directory, were the second
\* one missing.
DirectoryCatches_TypedOnly(exc) == exc = "ValidationError"

\* except ValidationError ... except Exception, in validate_directory
DirectoryCatches(exc) == TRUE

\* except ValidationError, in the single-file branch of main
FileCatches(exc) == exc = "ValidationError"

\* The line validate_directory appends to errors for a file that raised.
ErrorLine(f, r) ==
    [name |-> f.name, unexpected |-> r.exc # "ValidationError", kind |-> r.kind,
     exc |-> r.exc]

\* errors.append(f"No JSON files found in {dir_path}")
NoFilesLine == [name |-> <<>>, unexpected |-> FALSE, kind |-> "NoJsonFiles", exc |-> ""]

\* if errors: return 1 ... return 0
DirectoryStatus(f, errs) == IF errs # <<>> THEN 1 ELSE 0

VDeep == VFile(<<>>, 200000, TRUE, "RecursionError", Unset)

VFileKinds ==
    { VFile(<<>>, 120, TRUE, "ok", Doc(MetaDefault, DataDefault)),
      VFile(<<>>, MAX_FILE_SIZE_MB * 1024 * 1024 + 1, TRUE, "ok",
            Doc(MetaDefault, DataDefault)),
      VFile(<<>>, 17, TRUE, "JSONDecodeError", Unset),
      VFile(<<>>, 2, TRUE, "UnicodeDecodeError", Unset),
      VDeep,
      VFile(<<>>, 120, FALSE, "ok", Doc(MetaDefault, DataDefault)),
      VFile(<<>>, 60, TRUE, "ok", Dict(<<KV(K_title, Str(T_script))>>)),
      VFile(<<>>, 1, TRUE, "ok", Num(3)) }

VNames ==
    << <<"a", ".", "j", "s", "o", "n">>,
       <<"b", ".", "j", "s", "o", "n">>,
       <<"c", ".", "j", "s", "o", "n">>,
       <<"d", ".", "j", "s", "o", "n">> >>

\* What dir_path.glob("*.json") can list.
VListings ==
    UNION { { [i \in 1..n |-> [kinds[i] EXCEPT !.name = VNames[i]]] :
                kinds \in [1..n -> VFileKinds] } : n \in 0..MaxFiles }

\* The command line of the Validator: len(sys.argv), whether the path it
\* names exists, and whether it is a file.
InitValidateMain ==
    /\ argv \in [n : 1..2, exists : BOOLEAN, is_file : BOOLEAN]
    /\ files \in VListings
    /\ (argv.n < 2 \/ ~argv.exists) => files = <<>>
    /\ (argv.n = 2 /\ argv.exists /\ argv.is_file) => Len(files) = 1
    /\ cursor = 0 /\ passed = 0 /\ failed = 0
    /\ written = {} /\ log = <<>> /\ status = 0 - 1
    /\ errors = <<>>
    /\ NoFetcher
    /\ pc = "main"
    /\ raw_doc = Unset /\ clean_doc = Unset /\ second_doc = Unset
    /\ verdict = NoVerdict
    /\ arg = Unset /\ depth = 0 /\ ret = Unset

\* main, up to the choice between its two branches: a missing argument or
\* path ends it with status 1.
ValidateMainStart ==
    /\ pc = "main"
    /\ IF argv.n < 2 \/ ~argv.exists
       THEN status' = 1 /\ pc' = "exit"
       ELSE status' = status /\ pc' = IF argv.is_file THEN "file" ELSE "directory"
    /\ UNCHANGED <<argv, files, cursor, passed, failed, written, log, errors>>
    /\ UNCHANGED pipeline
    /\ UNCHANGED fetcher

\* The single-file branch of main: an exception its except clause does
\* not name leaves main.
ValidateSingleFile ==
    /\ pc = "file"
    /\ \E r \in {validate_file_path(files[1])} :
          /\ log' = Append(log, files[1].name)
          /\ IF r.exc = "" THEN status' = 0 /\ pc' = "exit"
             ELSE IF FileCatches(r.exc) THEN status' = 1 /\ pc' = "exit"
             ELSE status' = status /\ pc' = "raised"
    /\ UNCHANGED <<argv, files, cursor, passed, failed, written, errors>>
    /\ UNCHANGED pipeline
    /\ UNCHANGED fetcher

\* validate_directory, up to its loop: a listing without files returns
\* (0, 0, errors) with one line.
DirectoryStart ==
    /\ pc = "directory"
    /\ IF files = <<>>
       THEN errors' = <<NoFilesLine>> /\ pc' = "returned" /\ cursor' = cursor
       ELSE errors' = errors /\ pc' = "loop" /\ cursor' = 1
    /\ UNCHANGED <<argv, files, passed, failed, written, log, status>>
    /\ UNCHANGED pipeline
    /\ UNCHANGED fetcher

\* One turn of `for json_file in json_files`.
DirectoryNext ==
    /\ pc = "loop"
    /\ cursor <= Len(files)
    /\ \E r \in {validate_file_path(files[cursor])} :
          /\ log' = Append(log, files[cursor].name)
          /\ IF r.exc = ""
             THEN /\ passed' = passed + 1
                  /\ UNCHANGED <<failed, errors, pc>>
                  /\ cursor' = cursor + 1
             ELSE IF DirectoryCatches(r.exc)
             THEN /\ failed' = failed + 1
                  /\ errors' = Append(errors, ErrorLine(files[cursor], r))
                  /\ UNCHANGED <<passed, pc>>
                  /\ cursor' = cursor + 1
             ELSE /\ pc' = "raised"
                  /\ UNCHANGED <<passed, failed, errors, cursor>>
    /\ UNCHANGED <<argv, files, written, status>>
    /\ UNCHANGED pipeline
    /\ UNCHANGED fetcher

\* return passed, failed, errors
DirectoryReturn ==
    /\ pc = "loop"
    /\ cursor > Len(files)
    /\ pc' = "returned"
    /\ UNCHANGED <<argv, files, cursor, passed, failed, written, log, status, errors>>
    /\ UNCHANGED pipeline
    /\ UNCHANGED fetcher

\* The end of the directory branch of main.
ValidateMainReturn ==
    /\ pc = "returned"
    /\ status' = DirectoryStatus(failed, errors)
    /\ pc' = "exit"
    /\ UNCHANGED <<argv, files, cursor, passed, failed, written, log, errors>>
    /\ UNCHANGED pipeline
    /\ UNCHANGED fetcher

NextValidateMain ==
    \/ ValidateMainStart
    \/ ValidateSingleFile
    \/ DirectoryStart
    \/ DirectoryNext
    \/ DirectoryReturn
    \/ ValidateMainReturn

SpecValidateMain == InitValidateMain /\ [][NextValidateMain]_vars

----------------------------------------------------------------------------
(* The Validator's batch run and exit status                               *)

DirectoryMode == argv.n = 2 /\ argv.exists /\ ~argv.is_file

SingleFileMode == argv.n = 2 /\ argv.exists /\ argv.is_file

\* The places in the listing of the files validate_file raises on.
RaisingPlaces ==
    SelectSeq(AsSeq([i \in 1..Len(files) |-> i]),
              LAMBDA i : validate_file_path(files[i]).exc # "")

\* C21: validate_directory calls validate_file on every file of the listing
\* once, in order; no exception leaves it; while it loops passed + failed
\* counts the files done, and when it has returned passed + failed is the
\* number of files and errors holds one line for each file that raised,
\* naming it, in order.
C21_DirectoryIsolation ==
    DirectoryMode =>
        /\ pc # "raised"
        /\ Len(log) <= Len(files)
        /\ \A i \in 1..Len(log) : log[i] = files[i].name
        /\ pc = "loop" => passed + failed = cursor - 1 /\ Len(log) = cursor - 1
        /\ pc \in {"returned", "exit"} =>
              /\ Len(log) = Len(files)
              /\ passed + failed = Len(files)
              /\ failed = Len(RaisingPlaces)
              /\ files # <<>> =>
                    /\ Len(errors) = failed
                    /\ \A j \in 1..Len(errors) :
                          errors[j].name = files[RaisingPlaces[j]].name

\* A directory run over three files ended: the first raised an exception
\* outside the taxonomy, the second passed, the third raised a
\* ValidationError.
C21_Witness ==
    /\ DirectoryMode /\ pc = "exit" /\ Len(files) = 3
    /\ validate_file_path(files[1]).exc \notin {"", "ValidationError"}
    /\ validate_file_path(files[2]).exc = ""
    /\ validate_file_path(files[3]).exc = "ValidationError"
    /\ passed = 1 /\ failed = 2 /\ Len(errors) = 2
    /\ errors[1].unexpected /\ ~errors[2].unexpected

\* C22: in a run of main on an existing path, main returns (no exception
\* leaves it), with status 0 when every file it validated passed and 1
\* otherwise.
C22_ExitStatus ==
    argv.n = 2 /\ argv.exists =>
        /\ pc # "raised"
        /\ pc = "exit" =>
              (status = 0 <=>
                  \A i \in 1..Len(files) : validate_file_path(files[i]).exc = "")


----------------------------------------------------------------------------
(* src/fetcher/http.py: DomainRateLimiter                                  *)

\* The scripts are not run while the fetcher's programs are.
NoScripts ==
    /\ raw_doc = Unset /\ clean_doc = Unset /\ second_doc = Unset
    /\ verdict = NoVerdict
    /\ arg = Unset /\ depth = 0 /\ ret = Unset
    /\ NoBatch
    /\ errors = <<>>

scripts == <<pipeline, batch, errors>>

\* The first index of character c in s, 0 when there is none.
FindChar(s, c) ==
    IF \E i \in 1..Len(s) : s[i] = c
    THEN CHOOSE i \in 1..Len(s) : s[i] = c /\ \A j \in 1..(i - 1) : s[j] # c
    ELSE 0

\* The characters that end a netloc.
NetlocEnd == {"/", "?", "#"}

\* urlparse(url).netloc: what stands between the "//" that follows the
\* scheme and the next "/", "?" or "#"; empty when no "//" follows.
Netloc(url) ==
    LET colon == FindChar(url, ":")
        rest  == SubSeq(url, colon + 1, Len(url))
    IN IF ~StartsWith(rest, <<"/", "/">>) THEN <<>>
       ELSE LET loc == SubSeq(rest, 3, Len(rest))
            IN IF \E i \in 1..Len(loc) : loc[i] \in NetlocEnd
               THEN SubSeq(loc, 1,
                        (CHOOSE i \in 1..Len(loc) :
                            /\ loc[i] \in NetlocEnd
                            /\ \A j \in 1..(i - 1) : loc[j] \notin NetlocEnd) - 1)
               ELSE loc

\* DomainRateLimiter._domain
Domain(url) == Lower(Netloc(url))

\* asyncio.Semaphore(value): its counter, the tasks whose futures stand in
\* _waiters in order, and those of them whose future is done.  id tells
\* one Semaphore object from another.
Semaphore(id, value) ==
    [id |-> id, value |-> value, waiters |-> <<>>, woken |-> {}]

\* Semaphore.locked
Locked(sem) == sem.value = 0 \/ sem.waiters # <<>>

\* Semaphore._wake_up_next: the first waiter whose future is not done gets
\* the permit and its future is set.
WakeUpNext(sem) ==
    IF \E i \in 1..Len(sem.waiters) : sem.waiters[i] \notin sem.woken
    THEN LET i == CHOOSE i \in 1..Len(sem.waiters) :
                      /\ sem.waiters[i] \notin sem.woken
                      /\ \A j \in 1..(i - 1) : sem.waiters[j] \in sem.woken
         IN [sem EXCEPT !.value = @ - 1, !.woken = @ \cup {sem.waiters[i]}]
    ELSE sem

\* Semaphore.release
Release(sem) == WakeUpNext([sem EXCEPT !.value = @ + 1])

\* deque.remove(fut), for the future of task t
RemoveWaiter(sem, t) ==
    [sem EXCEPT !.waiters = SelectSeq(@, LAMBDA w : w # t), !.woken = @ \ {t}]

\* A limiter that makes a new semaphore at every call.
NeedsSemaphore_Always(domain) == TRUE

\* acquire's test for a domain that has no semaphore yet.
NeedsSemaphore(domain) == domain \notin DOMAIN semaphores

\* A context manager that skips the release when the body raised.
ReleasesOn_ReturnOnly(how) == how = "return"

\* Whether acquire's `async with` gives the permit back on this way out of
\* the body: it does on both, __aexit__ runs on a return and on a raise.
ReleasesOn(how) == TRUE

MaxTasks == 3

MaxPerDomain == 2

Tasks == 1..MaxTasks

URL_upper == <<"h", ":", "/", "/", "A", ".", "c", "/", "x">>

URL_lower == <<"h", ":", "/", "/", "a", ".", "c", "?", "y">>

URL_other == <<"h", ":", "/", "/", "b", ".", "c">>

URLs == {URL_upper, URL_lower, URL_other}

\* A task: where it stands, and the locals url and domain of its acquire.
Idle == [pc |-> "idle", url |-> <<>>, domain |-> <<>>]

InitLimiter ==
    /\ max_per_domain \in 1..MaxPerDomain
    /\ semaphores = <<>>
    /\ made = 0
    /\ task = [t \in Tasks |-> Idle]
    /\ pc = "limiter"
    /\ NoScripts
    /\ NoRetrying
    /\ NoRunning

\* A task calls limiter.acquire(url) and runs up to its first await or up
\* to the yield: the domain's semaphore is made if there is none, then
\* Semaphore.acquire takes a permit or queues the task.
Acquire(t, url) ==
    /\ task[t].pc = "idle"
    /\ LET domain == Domain(url)
           sems   == IF NeedsSemaphore(domain)
                     THEN (domain :> Semaphore(made + 1, max_per_domain)) @@ semaphores
                     ELSE semaphores
           sem    == sems[domain]
       IN /\ made' = IF NeedsSemaphore(domain) THEN made + 1 ELSE made
          /\ IF ~Locked(sem)
             THEN /\ semaphores' = [sems EXCEPT ![domain].value = @ - 1]
                  /\ task' = [task EXCEPT ![t] = [pc |-> "body", url |-> url, domain |-> domain]]
             ELSE /\ semaphores' = [sems EXCEPT ![domain].waiters = Append(@, t)]
                  /\ task' = [task EXCEPT ![t] = [pc |-> "waiting", url |-> url, domain |-> domain]]
    /\ UNCHANGED <<max_per_domain, pc>>
    /\ UNCHANGED <<scripts, retrying, running>>

\* A waiting task whose future was set runs again: it leaves _waiters,
\* passes a spare permit on, and enters the body.
Resume(t) ==
    /\ task[t].pc = "waiting"
    /\ t \in semaphores[task[t].domain].woken
    /\ LET domain == task[t].domain
           sem    == RemoveWaiter(semaphores[domain], t)
       IN semaphores' = [semaphores EXCEPT ![domain] =
                            IF sem.value > 0 THEN WakeUpNext(sem) ELSE sem]
    /\ task' = [task EXCEPT ![t].pc = "body"]
    /\ UNCHANGED <<max_per_domain, made, pc>>
    /\ UNCHANGED <<scripts, retrying, running>>

\* The body ends, by a return or by an exception: __aexit__ releases the
\* semaphore.  A task whose body returned may call acquire again, one
\* whose body raised is over.
Exit(t, how) ==
    /\ task[t].pc = "body"
    /\ LET domain == task[t].domain
       IN semaphores' = [semaphores EXCEPT ![domain] =
                            IF ReleasesOn(how) THEN Release(@) ELSE @]
    /\ task' = [task EXCEPT ![t] = IF how = "return" THEN Idle
                                    ELSE [Idle EXCEPT !.pc = "raised"]]
    /\ UNCHANGED <<max_per_domain, made, pc>>
    /\ UNCHANGED <<scripts, retrying, running>>

NextLimiter ==
    \/ \E t \in Tasks, url \in URLs : Acquire(t, url)
    \/ \E t \in Tasks : Resume(t)
    \/ \E t \in Tasks : Exit(t, "return")
    \/ \E t \in Tasks : Exit(t, "raise")

SpecLimiter == InitLimiter /\ [][NextLimiter]_vars

----------------------------------------------------------------------------
(* The limiter's bound and its semaphores                                  *)

Domains == {Domain(url) : url \in URLs}

\* The tasks inside the body of acquire(url) for a url of domain d.
Inside(d) == {t \in Tasks : task[t].pc = "body" /\ task[t].domain = d}

\* The tasks that called acquire(url) for a url of domain d and wait.
Waiting(d) == {t \in Tasks : task[t].pc = "waiting" /\ task[t].domain = d}

\* C23: under every interleaving, no more than max_per_domain tasks are
\* inside the body of acquire for urls of one lowercased netloc; a domain
\* has a semaphore from the first acquire for it on, and as many Semaphore
\* objects were ever made as there are domains, so none was replaced.
C23_DomainLimit ==
    /\ \A d \in Domains : Cardinality(Inside(d)) <= max_per_domain
    /\ \A t \in Tasks :
           task[t].pc \in {"waiting", "body"} =>
               /\ task[t].domain = Domain(task[t].url)
               /\ task[t].domain \in DOMAIN semaphores
    /\ DOMAIN semaphores \subseteq Domains
    /\ made = Cardinality(DOMAIN semaphores)
    /\ \A d, e \in DOMAIN semaphores :
           /\ semaphores[d].id \in 1..made
           /\ semaphores[d].id = semaphores[e].id => d = e

\* C23 witness: the limit is reached for one domain by tasks that came in
\* through urls of different case, a further task waits for that domain,
\* and the limiter holds the one semaphore.
C23_Witness ==
    \E d \in Domains :
        /\ Cardinality(Inside(d)) = max_per_domain
        /\ max_per_domain = MaxPerDomain
        /\ \E t, u \in Inside(d) : task[t].url = URL_upper /\ task[u].url = URL_lower
        /\ Waiting(d) # {}
        /\ DOMAIN semaphores = {d}
        /\ made = 1

----------------------------------------------------------------------------
(* The limiter's waiting and progress                                      *)

\* The event loop runs a task whose future was set, and a task inside a
\* body leaves it in the end, one way or the other.
SpecLimiterFair ==
    /\ SpecLimiter
    /\ \A t \in Tasks : WF_vars(Resume(t))
    /\ \A t \in Tasks : WF_vars(Exit(t, "return") \/ Exit(t, "raise"))

\* The waiting tasks of domain d whose future was set: they have the permit
\* and have not run again yet.
Woken(d) == {t \in Waiting(d) : t \in semaphores[d].woken}

\* The tasks that have a permit of domain d.
Holders(d) == Inside(d) \cup Woken(d)

\* The tasks of domain d queued ahead of task t.
Ahead(d, t) ==
    {semaphores[d].waiters[i] : i \in
        {i \in 1..Len(semaphores[d].waiters) :
            \E j \in (i + 1)..Len(semaphores[d].waiters) : semaphores[d].waiters[j] = t}}

\* Every permit of a semaphore is either in its counter or with a task:
\* a body that ended, by a return or by an exception, gave its permit back.
PermitsAccounted ==
    \A d \in DOMAIN semaphores :
        semaphores[d].value + Cardinality(Holders(d)) = max_per_domain

\* Every task that waits enters the body in the end.
WaitingEnters ==
    \A t \in Tasks : (task[t].pc = "waiting") ~> (task[t].pc = "body")

\* C30 as stated: a task waits for a permit only while max_per_domain tasks
\* have the permits of its domain, permits come back on every way out of
\* the body, and every waiting task enters in the end.
C30_WaitsOnlyWhenFull ==
    /\ [](\A d \in DOMAIN semaphores : \A t \in Waiting(d) \ Woken(d) :
              Cardinality(Holders(d)) = max_per_domain)
    /\ []PermitsAccounted
    /\ WaitingEnters

\* C30 amended: a task waits for a permit only while max_per_domain tasks
\* have the permits of its domain or while a task queued ahead of it for the
\* same domain was given a permit and has not run again yet; the tasks of
\* other domains play no part; permits come back on every way out of the
\* body; and, the event loop being fair and every body ending, every
\* waiting task enters in the end.
C30_WaitsWhileLocked ==
    /\ [](\A d \in DOMAIN semaphores : \A t \in Waiting(d) \ Woken(d) :
              \/ Cardinality(Holders(d)) = max_per_domain
              \/ Ahead(d, t) \cap Woken(d) # {})
    /\ []PermitsAccounted
    /\ WaitingEnters

\* C30 witness: a task waits for a domain that has a free permit, behind a
\* task that was woken and has not run yet, while a task of the other
\* domain is inside its body.
C30_Witness ==
    \E d \in DOMAIN semaphores, t \in Tasks :
        /\ t \in Waiting(d) \ Woken(d)
        /\ semaphores[d].value > 0
        /\ Ahead(d, t) \cap Woken(d) # {}
        /\ \E e \in DOMAIN semaphores : e # d /\ Inside(e) # {}

----------------------------------------------------------------------------
(* src/fetcher/http.py: request_with_retry                                 *)

\* RetryConfig; backoff_factor counts half seconds, so that the default
\* 0.5 is 1.
RetryConfig(max_retries, backoff_factor, retry_statuses) ==
    [max_retries |-> max_retries, backoff_factor |-> backoff_factor,
     retry_statuses |-> retry_statuses]

DefaultStatuses == {429, 500, 502, 503, 504}

\* What client.request does on one call: a response with a status, or an
\* exception.
Response(code) == [status |-> code, exc |-> ""]

Fails(exc) == [status |-> 0, exc |-> exc]

\* The subclasses of httpx.RequestError among the exceptions.
IsRequestError(exc) == exc \in {"ConnectError", "ReadTimeout"}

\* Response.is_success
IsSuccess(code) == code \in 200..299

\* 2 ** n
RECURSIVE Pow2(_)
Pow2(n) == IF n = 0 THEN 1 ELSE 2 * Pow2(n - 1)

\* A loop that retries after its last attempt too.
MayRetry_Always(n, max_retries) == TRUE

\* The test `attempt < retry.max_retries` of both retry branches.
MayRetry(n, max_retries) == n < max_retries

\* One thing the function did: a request with what came of it, or a sleep.
Requested(n, reply) == [do |-> "request", attempt |-> n, reply |-> reply, wait |-> 0]

Slept(n, wait) == [do |-> "sleep", attempt |-> n, reply |-> Fails(""), wait |-> wait]

\* How the function ended: the response it returned or the error it raised,
\* and the attempt that produced it (-1: none).
Returns(n, code) == [how |-> "return", attempt |-> n, status |-> code, exc |-> ""]

Raise(n, code, exc) == [how |-> "raise", attempt |-> n, status |-> code, exc |-> exc]

MaxRetries == 2

Replies ==
    {Response(s) : s \in {200, 404, 429, 503}}
    \cup {Fails(e) : e \in {"ConnectError", "ReadTimeout", "InvalidURL"}}

RetryConfigs ==
    {RetryConfig(m, 1, s) :
        m \in (0 - 1)..MaxRetries, s \in {DefaultStatuses, {}, {200, 429}}}

InitRetry ==
    /\ retry \in RetryConfigs
    /\ attempt = 0
    /\ last_exc = ""
    /\ history = <<>>
    /\ outcome = <<>>
    /\ pc = "request"
    /\ NoScripts
    /\ NoLimiter
    /\ NoRunning

\* One round of the loop: the request, and what the function does with its
\* response or exception.
RequestAttempt(reply) ==
    /\ pc = "request"
    /\ attempt <= retry.max_retries
    /\ LET wait == retry.backoff_factor * Pow2(attempt)
           again == /\ attempt' = attempt + 1
                    /\ history' = history \o <<Requested(attempt, reply), Slept(attempt, wait)>>
                    /\ outcome' = outcome
                    /\ pc' = "request"
           ends(o) == /\ attempt' = attempt
                      /\ history' = Append(history, Requested(attempt, reply))
                      /\ outcome' = o
                      /\ pc' = "ended"
       IN CASE reply.exc = "" /\ reply.status \in retry.retry_statuses
                   /\ MayRetry(attempt, retry.max_retries) ->
                   again /\ last_exc' = last_exc
            [] reply.exc = "" /\ IsSuccess(reply.status) ->
                   ends(Returns(attempt, reply.status)) /\ last_exc' = last_exc
            [] reply.exc = "" ->
                   ends(Raise(attempt, reply.status, "HTTPStatusError")) /\ last_exc' = last_exc
            [] IsRequestError(reply.exc) /\ MayRetry(attempt, retry.max_retries) ->
                   again /\ last_exc' = reply.exc
            [] IsRequestError(reply.exc) ->
                   ends(Raise(attempt, 0, reply.exc)) /\ last_exc' = reply.exc
            [] OTHER ->
                   ends(Raise(attempt, 0, reply.exc)) /\ last_exc' = last_exc
    /\ UNCHANGED retry
    /\ UNCHANGED <<scripts, limiter, running>>

\* The loop is over without a return or a raise: the lines after it.
LoopOver ==
    /\ pc = "request"
    /\ attempt > retry.max_retries
    /\ outcome' = IF last_exc # "" THEN Raise(attempt - 1, 0, last_exc)
                  ELSE Raise(0 - 1, 0, "RuntimeError")
    /\ pc' = "ended"
    /\ UNCHANGED <<retry, attempt, last_exc, history>>
    /\ UNCHANGED <<scripts, limiter, running>>

NextRetry ==
    \/ \E reply \in Replies : RequestAttempt(reply)
    \/ LoopOver

SpecRetry == InitRetry /\ [][NextRetry]_vars

----------------------------------------------------------------------------
(* The retry protocol                                                      *)

\* The requests among the things done so far, in order.
RequestsMade == SelectSeq(history, LAMBDA e : e.do = "request")

\* The reply asks for another try under the configuration.
Retryable(reply) ==
    \/ reply.exc = "" /\ reply.status \in retry.retry_statuses
    \/ IsRequestError(reply.exc)

\* The error that raising on a reply raises.
ErrorOf(reply) == IF reply.exc = "" THEN "HTTPStatusError" ELSE reply.exc

\* C27: with max_retries >= 0, request_with_retry makes at most
\* max_retries + 1 requests; it ends by returning a response that passed
\* raise_for_status or by raising the error of its last request, never the
\* RuntimeError; a further request follows only a retryable reply and the
\* sleep after it; an error status outside retry_statuses is raised at
\* once; and no sleep follows the last attempt.
C27_RetryProtocol ==
    retry.max_retries >= 0 =>
        /\ Len(RequestsMade) <= retry.max_retries + 1
        /\ \A i \in 1..Len(RequestsMade) : RequestsMade[i].attempt = i - 1
        /\ pc = "ended" =>
               /\ history # <<>>
               /\ LET last == history[Len(history)]
                  IN /\ last.do = "request"
                     /\ outcome.attempt = last.attempt
                     /\ \/ /\ outcome.how = "return"
                           /\ last.reply.exc = ""
                           /\ outcome.status = last.reply.status
                           /\ IsSuccess(outcome.status)
                        \/ /\ outcome.how = "raise"
                           /\ outcome.exc = ErrorOf(last.reply)
                           /\ outcome.status = last.reply.status
                           /\ outcome.exc # "RuntimeError"
        /\ \A i \in 1..Len(history) :
               /\ (history[i].do = "request" /\ i > 1) =>
                      /\ history[i - 1].do = "sleep"
                      /\ i > 2 /\ history[i - 2].do = "request"
                      /\ Retryable(history[i - 2].reply)
               /\ history[i].do = "sleep" =>
                      /\ i > 1 /\ history[i - 1].do = "request"
                      /\ history[i].attempt < retry.max_retries
                      /\ history[i].wait = retry.backoff_factor * Pow2(history[i].attempt)
               /\ (/\ history[i].do = "request"
                   /\ history[i].reply.exc = ""
                   /\ ~IsSuccess(history[i].reply.status)
                   /\ history[i].reply.status \notin retry.retry_statuses) =>
                      /\ i = Len(history)
                      /\ pc = "ended"
                      /\ outcome.how = "raise" /\ outcome.exc = "HTTPStatusError"
               /\ (history[i].do = "request" /\ history[i].attempt = retry.max_retries) =>
                      i = Len(history) /\ pc = "ended"

\* C27 witness: every retry was used, two on a retryable status and on a
\* RequestError, and the last attempt's retryable status was raised with no
\* sleep after it.
C27_Witness ==
    /\ retry.max_retries = MaxRetries
    /\ pc = "ended"
    /\ Len(RequestsMade) = MaxRetries + 1
    /\ \E i \in 1..Len(RequestsMade) : RequestsMade[i].reply.status = 503
    /\ \E i \in 1..Len(RequestsMade) : RequestsMade[i].reply.exc = "ReadTimeout"
    /\ history[Len(history)].reply.status = 503
    /\ outcome.how = "raise" /\ outcome.exc = "HTTPStatusError"

----------------------------------------------------------------------------
(* src/fetcher/cli.py: run, _run_all and _run_single_source                *)

NumSources == 3

RegisteredNames == <<"chinese_news", "global_affairs", "mofcom", "xinhua">>

\* list(SOURCE_REGISTRY.keys())
SOURCE_REGISTRY == SubSeq(RegisteredNames, 1, NumSources)

Registered == {SOURCE_REGISTRY[i] : i \in 1..Len(SOURCE_REGISTRY)}

\* sources_to_run, filtered by `name in SOURCE_REGISTRY`
SourcesToRun ==
    IF source_filter # "" THEN {source_filter} \cap Registered ELSE Registered

\* What run_source and write_raw can do for one source: return, or raise
\* in the fetch or in the write.
SourceFates ==
    {[raised |-> "", exc |-> ""],
     [raised |-> "fetch", exc |-> "RuntimeError"],
     [raised |-> "fetch", exc |-> "HTTPStatusError"],
     [raised |-> "write", exc |-> "OSError"]}

\* A _run_single_source that catches no exception of the write.
SourceCatches_FetchOnly(fate) == fate.raised = "fetch"

\* `except Exception` around run_source and write_raw: every exception of
\* a fetch or a write is one.
SourceCatches(fate) == TRUE

\* The result dict of _run_single_source; the exception's name stands
\* for str(exc).
ResultOk(name) == [source |-> name, status |-> "ok", error |-> ""]

ResultError(name, text) == [source |-> name, status |-> "error", error |-> text]

\* The sources whose result dict is there.
Finished == DOMAIN results

InitRun ==
    /\ config_found \in BOOLEAN
    /\ source_filter \in {""} \cup Registered
    /\ calls = [name \in Registered |-> 0]
    /\ results = <<>>
    /\ exit_code = 0 - 1
    /\ pc = "run"
    /\ NoScripts
    /\ NoLimiter
    /\ NoRetrying

\* run, up to asyncio.run(_run_all(...)): a missing configuration file
\* ends the command with status 1.
RunStart ==
    /\ pc = "run"
    /\ IF ~config_found
       THEN exit_code' = 1 /\ pc' = "exit"
       ELSE exit_code' = exit_code /\ pc' = "run_all"
    /\ UNCHANGED <<config_found, source_filter, calls, results>>
    /\ UNCHANGED <<scripts, limiter, retrying>>

\* _run_all, up to its awaits: an unknown source_filter is answered at
\* once, otherwise the coroutines of _run_single_source are started.
RunAllStart ==
    /\ pc = "run_all"
    /\ IF source_filter # "" /\ source_filter \notin Registered
       THEN /\ results' = (source_filter :> ResultError(source_filter, "Unknown source"))
            /\ pc' = "summary"
       ELSE /\ results' = results
            /\ pc' = "gather"
    /\ UNCHANGED <<config_found, source_filter, calls, exit_code>>
    /\ UNCHANGED <<scripts, limiter, retrying>>

\* _run_single_source(name) calls run_source and waits for it.
SourceStart(name) ==
    /\ pc = "gather"
    /\ name \in SourcesToRun
    /\ calls[name] = 0
    /\ calls' = [calls EXCEPT ![name] = 1]
    /\ UNCHANGED <<config_found, source_filter, results, exit_code, pc>>
    /\ UNCHANGED <<scripts, limiter, retrying>>

\* The rest of _run_single_source(name): run_source returns and the output
\* is written, or one of the two raises; a caught exception becomes the
\* source's error result, one not caught leaves _run_all.
SourceFinish(name, fate) ==
    /\ pc = "gather"
    /\ name \in SourcesToRun
    /\ calls[name] = 1
    /\ name \notin Finished
    /\ IF fate.raised = ""
       THEN results' = (name :> ResultOk(name)) @@ results /\ pc' = pc
       ELSE IF SourceCatches(fate)
       THEN results' = (name :> ResultError(name, fate.exc)) @@ results /\ pc' = pc
       ELSE results' = results /\ pc' = "raised"
    /\ UNCHANGED <<config_found, source_filter, calls, exit_code>>
    /\ UNCHANGED <<scripts, limiter, retrying>>

\* Every coroutine has returned: _run_all returns the list of results.
RunAllReturn ==
    /\ pc = "gather"
    /\ Finished = SourcesToRun
    /\ pc' = "summary"
    /\ UNCHANGED running
    /\ UNCHANGED <<scripts, limiter, retrying>>

\* run's summary: sys.exit(1) when a result has status "error".
RunSummary ==
    /\ pc = "summary"
    /\ LET failed_count == Cardinality({name \in Finished : results[name].status = "error"})
       IN exit_code' = IF failed_count > 0 THEN 1 ELSE 0
    /\ pc' = "exit"
    /\ UNCHANGED <<config_found, source_filter, calls, results>>
    /\ UNCHANGED <<scripts, limiter, retrying>>

NextRun ==
    \/ RunStart
    \/ RunAllStart
    \/ \E name \in Registered : SourceStart(name)
    \/ \E name \in Registered, fate \in SourceFates : SourceFinish(name, fate)
    \/ RunAllReturn
    \/ RunSummary

SpecRun == InitRun /\ [][NextRun]_vars

----------------------------------------------------------------------------
(* Source failure isolation in the run command                             *)

AllSourcesMode == config_found /\ source_filter = ""

\* The sources whose result is an error.
Failed == {name \in Finished : results[name].status = "error"}

\* No exception leaves _run_all; no source is called twice and none has a
\* result without having been called; and when all sources were to run,
\* the command ends with each called once and each with a result.
EverySourceAttempted ==
    /\ pc # "raised"
    /\ \A name \in Registered : calls[name] <= 1
    /\ \A name \in Finished : calls[name] = 1 /\ results[name].source = name
    /\ (AllSourcesMode /\ pc = "exit") =>
           /\ \A name \in Registered : calls[name] = 1
           /\ Finished = Registered

\* A step leaves the results that are there as they are and adds at most
\* one: what a source does touches that source's result only.
OwnResultOnly ==
    /\ \A name \in Finished : name \in DOMAIN results' /\ results'[name] = results[name]
    /\ Cardinality(DOMAIN results') <= Cardinality(Finished) + 1

----------------------------------------------------------------------------
(* src/fetcher/models.py: wrap_result and FetchResult.to_dict              *)

\* d.pop(k, default): the dict without key k
DictPop(d, k) == [d EXCEPT !.kv = SelectSeq(@, LAMBDA p : p.k # k)]

\* d.update(e): the keys of d keep their places and take e's values, the
\* new keys of e follow in e's order.
DictUpdate(d, e) ==
    [d EXCEPT !.kv =
        AsSeq([i \in 1..Len(@) |->
                  IF HasKey(e, @[i].k) THEN KV(@[i].k, Get(e, @[i].k)) ELSE @[i]])
        \o SelectSeq(e.kv, LAMBDA p : ~HasKey(d, p.k))]

K_fetch_metadata ==
    <<"f", "e", "t", "c", "h", "_", "m", "e", "t", "a", "d", "a", "t", "a">>

K_total_articles ==
    <<"t", "o", "t", "a", "l", "_", "a", "r", "t", "i", "c", "l", "e", "s">>

FetchResult(source, date, articles, data, metadata) ==
    [source |-> source, date |-> date, articles |-> articles, data |-> data,
     metadata |-> metadata]

\* wrap_result: an `articles` entry that is a list is popped from raw, what
\* is left of raw is the data.
wrap_result(source, date, raw) ==
    IF HasKey(raw, K_articles) /\ Get(raw, K_articles).t = "list"
    THEN FetchResult(source, date, Get(raw, K_articles), DictPop(raw, K_articles), EmptyDict)
    ELSE FetchResult(source, date, List(<<>>), raw, EmptyDict)

\* FetchResult.to_dict
to_dict(self) ==
    LET spread   == IF Truthy(self.data) THEN DictUpdate(EmptyDict, self.data)
                    ELSE EmptyDict
        articled == IF Truthy(self.articles) THEN DictSet(spread, K_articles, self.articles)
                    ELSE spread
    IN IF Truthy(self.metadata) THEN DictSet(articled, K_fetch_metadata, self.metadata)
       ELSE articled

\* Python's == on two dicts: the same keys with equal values, in any order.
SameDict(d, e) ==
    /\ Keys(d) = Keys(e)
    /\ \A k \in Keys(d) : Get(d, k) = Get(e, k)

A_one == Dict(<<KV(K_title, Str(T_plain))>>)

A_two == Dict(<<KV(K_title, Str(T_plain)), KV(K_url, Str(U_https))>>)

\* The raw dicts of the sources: with or without a date, counters and a
\* fetch_metadata of their own, and with an `articles` entry that is
\* absent, an empty list, a list of articles, or no list; `articles`
\* stands first or last.
RawDicts ==
    { Dict(IF first THEN a \o rest ELSE rest \o a) :
        first \in BOOLEAN,
        a \in {<<>>, <<KV(K_articles, List(<<>>))>>,
               <<KV(K_articles, List(<<A_one>>))>>,
               <<KV(K_articles, List(<<A_one, A_two>>))>>,
               <<KV(K_articles, None)>>,
               <<KV(K_articles, A_one)>>},
        rest \in { d \o n \o m :
                     d \in {<<>>, <<KV(K_date, Str(T_plain))>>},
                     n \in {<<>>, <<KV(K_total_articles, Num(1))>>},
                     m \in {<<>>, <<KV(K_fetch_metadata, A_one)>>} } }

InitWrap ==
    /\ arg \in RawDicts
    /\ depth = 0
    /\ ret = Unset
    /\ pc = "wrap"
    /\ raw_doc = Unset /\ clean_doc = Unset /\ second_doc = Unset
    /\ verdict = NoVerdict
    /\ NoBatch
    /\ NoOthers

\* run_source's last line and _run_single_source's result.to_dict()
CallWrapResult ==
    /\ pc = "wrap"
    /\ ret' = to_dict(wrap_result("news", "2025-01-17", arg))
    /\ pc' = "wrapped"
    /\ UNCHANGED <<arg, depth, raw_doc, clean_doc, second_doc, verdict>>
    /\ UNCHANGED batch
    /\ UNCHANGED others

NextWrap == CallWrapResult

SpecWrap == InitWrap /\ [][NextWrap]_vars

\* C25: wrap_result(source, date, r).to_dict() has the keys of r with the
\* values of r, for every raw dict r.
C25_RoundTrip ==
    pc = "wrapped" => SameDict(ret, arg)

----------------------------------------------------------------------------
(* The names of the extra fields                                           *)

\* The object keys anywhere in a value.
RECURSIVE KeysBelow(_)
KeysBelow(v) ==
    CASE v.t = "dict" ->
            UNION {{v.kv[i].k} \cup KeysBelow(v.kv[i].v) : i \in 1..Len(v.kv)}
      [] v.t = "list" ->
            UNION {KeysBelow(v.items[i]) : i \in 1..Len(v.items)}
      [] OTHER -> {}

\* The names the Reconstructor writes by itself in the data section.
DataSchemaKeys ==
    {K_date, K_source_url, K_total_scraped, K_total_fetched, K_total_relevant,
     K_articles, K_error, K_feed_errors, K_feed,
     K_title, K_source, K_url, K_link, K_body, K_body_text, K_content, K_summary,
     K_description, K_language, K_category, K_author, K_relevance_tags}

\* C26: every object key below data in the reconstructed envelope that is
\* not a name of the schema, the names of the extra fields included, is
\* what sanitize_string(key, 200) makes of a key of the input's data, and
\* no key of the input that the sanitization changes is among them.
C26_ExtraKeysSanitized ==
    (/\ pc \notin {"parsed", "failed"}
     /\ clean_doc.t = "dict"
     /\ HasKey(clean_doc, K_data)
     /\ raw_doc.t = "dict"
     /\ HasKey(raw_doc, K_data))
    => /\ \A k \in KeysBelow(Get(clean_doc, K_data)) \ DataSchemaKeys :
              \E j \in KeysBelow(Get(raw_doc, K_data)) :
                  k = sanitize_string(Str(j), 200)
       /\ \A j \in KeysBelow(Get(raw_doc, K_data)) :
              sanitize_string(Str(j), 200) # j =>
                  j \notin KeysBelow(Get(clean_doc, K_data))

----------------------------------------------------------------------------
(* The paths of the Validator                                              *)

\* C28: the paths validate_value builds for the str leaves of a document
\* are different for different leaves, and the path of a ValidationError
\* of the walk is the path of one leaf only.
C28_PathsDistinct ==
    pc \in {"walk_ok", "walk_failed"} =>
        LET leaves == StringLeaves(clean_doc, <<>>)
        IN /\ \A i, j \in 1..Len(leaves) :
                  i # j => leaves[i].path # leaves[j].path
           /\ pc = "walk_failed" =>
                  Cardinality({i \in 1..Len(leaves) : leaves[i].path = verdict.path}) = 1

----------------------------------------------------------------------------
(* Text fields whose input is no text                                      *)

NotText(v) == v.t # "str"

\* The field is absent from the object or holds the empty string.
EmptyOrDropped(d, f) == ~HasKey(d, f) \/ Get(d, f) = Str(<<>>)

\* Where the input has field f with a value that is no str, the output has
\* it empty or not at all.
ClosedOn(in, out, fields) ==
    \A f \in fields : (HasKey(in, f) /\ NotText(Get(in, f))) => EmptyOrDropped(out, f)

MetadataTextFields == {K_source_name, K_fetch_timestamp, K_date, K_version}

ArticleTextFields ==
    {K_title, K_source, K_body, K_body_text, K_content, K_summary, K_description,
     K_language, K_category, K_author}

\* The input's data holds one article, an object.
OneArticleIn ==
    /\ HasKey(Get(raw_doc, K_data), K_articles)
    /\ Get(Get(raw_doc, K_data), K_articles).t = "list"
    /\ Len(Get(Get(raw_doc, K_data), K_articles).items) = 1
    /\ Get(Get(raw_doc, K_data), K_articles).items[1].t = "dict"

ArticleIn == Get(Get(raw_doc, K_data), K_articles).items[1]

ArticlesOut == Get(Get(clean_doc, K_data), K_articles).items

\* C29: a text field of the metadata, of the data section or of an article
\* whose input value is no str is empty or absent in the output; a tag that
\* is no str is empty; and an article whose title is no str and that has no
\* valid source_url does not pass the gate.
C29_FailClosed ==
    (/\ pc \notin {"parsed", "failed"}
     /\ clean_doc.t = "dict"
     /\ raw_doc.t = "dict")
    => /\ HasKey(clean_doc, K_metadata) =>
              ClosedOn(Get(raw_doc, K_metadata), Get(clean_doc, K_metadata),
                       MetadataTextFields)
       /\ HasKey(clean_doc, K_data) =>
              /\ ClosedOn(Get(raw_doc, K_data), Get(clean_doc, K_data), {K_date, K_error})
              /\ OneArticleIn =>
                     /\ (/\ HasKey(ArticleIn, K_title)
                         /\ NotText(Get(ArticleIn, K_title))
                         /\ ~Truthy(sanitize_url(GetOr(ArticleIn, K_source_url, None))))
                        => ArticlesOut = <<>>
                     /\ ArticlesOut # <<>> =>
                            /\ ClosedOn(ArticleIn, ArticlesOut[1], ArticleTextFields)
                            /\ HasKey(ArticlesOut[1], K_relevance_tags) =>
                                   \A i \in 1..Len(Get(ArticlesOut[1], K_relevance_tags).items) :
                                       NotText(Get(ArticleIn, K_relevance_tags).items[i]) =>
                                           Get(ArticlesOut[1], K_relevance_tags).items[i] = Str(<<>>)

====
